---- MODULE Spec2Model ----
(***************************************************************************)
(* Decision-support dashboard: KPI engine, Balanced-Scorecard/OKR engine,  *)
(* OLAP engine and Rayleigh defect-prediction engine.                      *)
(*                                                                         *)
(* Every engine function is a pure function of its arguments, so each      *)
(* specification draws the inputs in its initial state and has one action  *)
(* per function, which records the function's outcome in `result`.         *)
(*                                                                         *)
(* Numbers.  Python floats are modelled as exact rationals <<n, d>> in     *)
(* lowest terms with d > 0; <<0, 0>> is NaN.  round(x, k) is modelled as   *)
(* round-half-even on the exact value.                                     *)
(***************************************************************************)
EXTENDS Integers, Sequences, FiniteSets, TLC

VARIABLES
    dfProy,     \* the Projects table (df_proy): a sequence of rows
    dfCal,      \* the Quality table (df_cal): a sequence of rows
    df,         \* the table handed to an OLAP operation
    call,       \* the arguments of the last call, as the caller passed them
    after,      \* the caller's argument objects as they are after the call
    op,         \* the function last called ("none" before any call)
    result,     \* what that call returned or raised
    session_state,  \* st.session_state of the dashboard session
    history     \* the outcome of the last password check or logout

vars == <<dfProy, dfCal, df, call, after, op, result, session_state, history>>

(***************************************************************************)
(* Exact rational arithmetic standing for float arithmetic                 *)
(***************************************************************************)
Abs(x) == IF x < 0 THEN -x ELSE x

RECURSIVE Gcd(_, _)
Gcd(a, b) == IF b = 0 THEN a ELSE Gcd(b, a % b)

NaN == <<0, 0>>

IsNaN(x) == x[2] = 0

\* n / d, d # 0, in lowest terms with a positive denominator
Rat(n, d) ==
    LET g == Gcd(Abs(n), Abs(d))
        s == IF d < 0 THEN -1 ELSE 1
    IN  <<(s * n) \div g, (s * d) \div g>>

Num(n) == <<n, 1>>

RAdd(a, b) ==
    IF IsNaN(a) \/ IsNaN(b) THEN NaN
    ELSE LET g == Gcd(a[2], b[2])
             l == (a[2] \div g) * b[2]
         IN  Rat(a[1] * (l \div a[2]) + b[1] * (l \div b[2]), l)

RNeg(a) == IF IsNaN(a) THEN NaN ELSE <<-a[1], a[2]>>

RSub(a, b) == RAdd(a, RNeg(b))

RMul(a, b) ==
    IF IsNaN(a) \/ IsNaN(b) THEN NaN
    ELSE LET g1 == Gcd(Abs(a[1]), b[2])
             g2 == Gcd(Abs(b[1]), a[2])
         IN  Rat((a[1] \div g1) * (b[1] \div g2), (a[2] \div g2) * (b[2] \div g1))

\* a / b for b # 0 (every call site guards the zero divisor as the code does)
RDiv(a, b) ==
    IF IsNaN(a) \/ IsNaN(b) THEN NaN
    ELSE RMul(a, Rat(b[2], b[1]))

\* comparisons: every comparison with NaN is False, as in IEEE arithmetic
RLt(a, b) ==
    /\ ~IsNaN(a)
    /\ ~IsNaN(b)
    /\ RSub(a, b)[1] < 0

RLe(a, b) ==
    /\ ~IsNaN(a)
    /\ ~IsNaN(b)
    /\ RSub(a, b)[1] <= 0

RGt(a, b) == RLt(b, a)

RGe(a, b) == RLe(b, a)

\* Python's min(a, b): b only if b < a, so a NaN first argument is returned
PyMin(a, b) == IF RLt(b, a) THEN b ELSE a

\* Python's max(a, b): b only if b > a
PyMax(a, b) == IF RGt(b, a) THEN b ELSE a

Pow10(k) == IF k = 0 THEN 1 ELSE IF k = 1 THEN 10 ELSE 100

\* round(x, k), k in 0..2: the nearest multiple of 10^-k, ties to even
RRound(x, k) ==
    IF IsNaN(x) THEN NaN
    ELSE LET q   == x[1] \div x[2]                 \* floor of x
             r   == x[1] % x[2]                    \* x = q + r/d, 0 <= r < d
             s   == r * Pow10(k)
             f   == s \div x[2]                    \* floor of the scaled fraction
             rem == s % x[2]
             up  == \/ 2 * rem > x[2]
                    \/ (2 * rem = x[2] /\ (q * Pow10(k) + f) % 2 = 1)
             m   == q * Pow10(k) + f + (IF up THEN 1 ELSE 0)
         IN  Rat(m, Pow10(k))

\* ceil(x), for a number x that is not NaN
RCeil(x) == -((-x[1]) \div x[2])

(***************************************************************************)
(* Sequence helpers standing for pandas selections and aggregations        *)
(***************************************************************************)
SelectRows(rows, Keep(_)) == SelectSeq(rows, Keep)

\* Series.sum(): NaN entries are skipped, the empty sum is 0
RECURSIVE SumCol(_, _)
SumCol(rows, col) ==
    IF rows = <<>> THEN Num(0)
    ELSE IF IsNaN(Head(rows)[col]) THEN SumCol(Tail(rows), col)
         ELSE RAdd(Head(rows)[col], SumCol(Tail(rows), col))

NotNaRows(rows, col) == SelectRows(rows, LAMBDA r : ~IsNaN(r[col]))

\* Series.mean(): NaN entries are skipped, the mean of nothing is NaN
MeanCol(rows, col) ==
    LET n == Len(NotNaRows(rows, col))
    IN  IF n = 0 THEN NaN ELSE RDiv(SumCol(rows, col), Num(n))

\* the set of values of a column
ColValues(rows, col) == {rows[i][col] : i \in 1..Len(rows)}

\* Series.max() / Series.min() over a column without NaN, rows non-empty
MaxCol(rows, col) ==
    CHOOSE v \in ColValues(rows, col) : \A w \in ColValues(rows, col) : RLe(w, v)

MinCol(rows, col) ==
    CHOOSE v \in ColValues(rows, col) : \A w \in ColValues(rows, col) : RLe(v, w)

\* Series.nunique()
NUnique(rows, col) == Cardinality(ColValues(rows, col))

\* all sequences over S of length at most n
SeqsUpTo(S, n) == UNION {[1..k -> S] : k \in 0..n}

(***************************************************************************)
(* The two record collections                                              *)
(***************************************************************************)
\* bound on the number of rows loaded, the two tables taken together
MaxRows == 3

\* rows of OLAP_Proyectos.csv: a profitable project, a project that lost all
\* it cost, a project whose ROI is just under the 30% threshold, an idle
\* project, and a project whose profit is missing
ProjectRows ==
    { [nombre_proyecto |-> "ERP-Java", nombre_cliente |-> "Acme",
       ganancia_neta |-> Num(100), costo_total_real |-> Num(80)],
      [nombre_proyecto |-> "CRM-Python", nombre_cliente |-> "Acme",
       ganancia_neta |-> Num(-100), costo_total_real |-> Num(100)],
      [nombre_proyecto |-> "Portal-Go", nombre_cliente |-> "Globex",
       ganancia_neta |-> Num(602), costo_total_real |-> Num(2007)],
      [nombre_proyecto |-> "Intranet", nombre_cliente |-> "Globex",
       ganancia_neta |-> Num(0), costo_total_real |-> Num(0)],
      [nombre_proyecto |-> "ERP-Java", nombre_cliente |-> "Initech",
       ganancia_neta |-> NaN, costo_total_real |-> Num(100)] }

\* rows of OLAP_Calidad.csv ("critica" stands for the source's 'crítica');
\* "bloqueante" is a label outside the severity-to-days table
QualityRows ==
    { [nombre_proyecto |-> "ERP-Java", severidad |-> "alta",
       cantidad_defectos_encontrados |-> Num(8)],
      [nombre_proyecto |-> "ERP-Java", severidad |-> "nula",
       cantidad_defectos_encontrados |-> Num(3)],
      [nombre_proyecto |-> "CRM-Python", severidad |-> "critica",
       cantidad_defectos_encontrados |-> Num(30)],
      [nombre_proyecto |-> "Portal-Go", severidad |-> "media",
       cantidad_defectos_encontrados |-> Num(0)],
      [nombre_proyecto |-> "Portal-Go", severidad |-> "bloqueante",
       cantidad_defectos_encontrados |-> Num(12)] }

\* a call that returns v
Return(v) == [raised |-> FALSE, value |-> v]

\* raise ValueError(message)
ValueError(message) == [raised |-> TRUE, error |-> "ValueError", message |-> message]

\* what a call returns: (value, metadata)
Ret(v, m) == [raised |-> FALSE, value |-> v, metadata |-> m]

\* what a call that raises leaves the caller with
Raise(e) == [raised |-> TRUE, error |-> e]

(***************************************************************************)
(* kpi_calculator.py                                                       *)
(***************************************************************************)
calculate_completion_rate(df_proy) ==
    IF df_proy = <<>>
    THEN Ret(Num(0), [completed |-> 0, total |-> 0, status |-> "No data"])
    ELSE LET total_projects == Len(df_proy)
             completed_projects ==
                 Len(SelectRows(df_proy, LAMBDA r : RGt(r.ganancia_neta, Num(0))))
             rate == IF total_projects > 0
                     THEN Rat(completed_projects * 100, total_projects)
                     ELSE Num(0)
         IN  Ret(RRound(rate, 2),
                 [completed |-> completed_projects,
                  total |-> total_projects,
                  in_progress |-> total_projects - completed_projects,
                  status |-> IF RGe(rate, Num(80)) THEN "healthy"
                             ELSE IF RGe(rate, Num(50)) THEN "warning"
                             ELSE "critical"])

\* the part of calculate_budget_efficiency after the roi column is computed
budget_efficiency_of(roi) ==
    LET avg_efficiency == MeanCol(roi, "roi")
    IN  Ret(RRound(avg_efficiency, 2),
            [avg_roi |-> RRound(avg_efficiency, 2),
             best_roi |-> RRound(MaxCol(roi, "roi"), 2),
             worst_roi |-> RRound(MinCol(roi, "roi"), 2),
             projects_analyzed |-> Len(roi),
             status |-> IF RGe(avg_efficiency, Num(30)) THEN "healthy"
                        ELSE IF RGe(avg_efficiency, Num(15)) THEN "warning"
                        ELSE "critical"])

\* df_valid['roi'] = ganancia_neta / costo_total_real * 100
roi_column(df_valid) ==
    [i \in 1..Len(df_valid) |->
        [roi |-> RMul(RDiv(df_valid[i].ganancia_neta, df_valid[i].costo_total_real),
                      Num(100))]]

calculate_budget_efficiency(df_proy) ==
    LET df_valid == SelectRows(df_proy,
                        LAMBDA r : /\ RGt(r.costo_total_real, Num(0))
                                   /\ ~IsNaN(r.ganancia_neta))
    IN  IF df_valid = <<>>
        THEN Ret(Num(0), [avg_roi |-> 0, projects_analyzed |-> 0,
                          status |-> "No data"])
        ELSE budget_efficiency_of(roi_column(df_valid))

calculate_team_utilization(df_proy) ==
    IF df_proy = <<>>
    THEN Ret(Num(0), [active |-> 0, total |-> 0, status |-> "No data"])
    ELSE LET total_projects == Len(df_proy)
             active_projects ==
                 Len(SelectRows(df_proy,
                        LAMBDA r : \/ RGt(r.ganancia_neta, Num(0))
                                   \/ RGt(r.costo_total_real, Num(0))))
             utilization == IF total_projects > 0
                            THEN Rat(active_projects * 100, total_projects)
                            ELSE Num(0)
             unique_clients == NUnique(df_proy, "nombre_cliente")
         IN  Ret(RRound(utilization, 2),
                 [active_projects |-> active_projects,
                  total_projects |-> total_projects,
                  idle_projects |-> total_projects - active_projects,
                  unique_clients |-> unique_clients,
                  status |-> IF RGe(utilization, Num(70)) THEN "healthy"
                             ELSE IF RGe(utilization, Num(50)) THEN "warning"
                             ELSE "critical"])

\* calculate_defect_density with the status tested as for a KPI where higher
\* is better
defect_density_higher_is_better(df_cal, total_defects, total_projects) ==
    LET density == IF total_projects > 0
                   THEN RDiv(total_defects, Num(total_projects))
                   ELSE Num(0)
    IN  Ret(RRound(density, 2),
            [total_defects |-> total_defects[1] \div total_defects[2],
             total_projects |-> total_projects,
             density |-> RRound(density, 2),
             severity_breakdown |-> <<>>,
             status |-> IF RGe(density, Num(10)) THEN "healthy"
                        ELSE IF RGe(density, Num(25)) THEN "warning"
                        ELSE "critical"])

\* the part of calculate_defect_density after the two totals are computed
defect_density_of(df_cal, total_defects, total_projects) ==
    LET density == IF total_projects > 0
                   THEN RDiv(total_defects, Num(total_projects))
                   ELSE Num(0)
        severity_breakdown ==
            [s \in ColValues(df_cal, "severidad") |->
                SumCol(SelectRows(df_cal, LAMBDA r : r.severidad = s),
                       "cantidad_defectos_encontrados")]
    IN  Ret(RRound(density, 2),
            [total_defects |-> total_defects[1] \div total_defects[2],
             total_projects |-> total_projects,
             density |-> RRound(density, 2),
             severity_breakdown |-> severity_breakdown,
             status |-> IF RLe(density, Num(10)) THEN "healthy"
                        ELSE IF RLe(density, Num(25)) THEN "warning"
                        ELSE "critical"])

calculate_defect_density(df_cal, df_proy) ==
    IF df_cal = <<>> \/ df_proy = <<>>
    THEN Ret(Num(0), [total_defects |-> 0, projects |-> 0, status |-> "No data"])
    ELSE defect_density_of(df_cal,
                           SumCol(df_cal, "cantidad_defectos_encontrados"),
                           NUnique(df_proy, "nombre_proyecto"))

\* the severity-to-days table, in days; nula is half a day
SeverityNames == <<"critica", "alta", "media", "baja", "nula">>

severity_days(s) ==
    CASE s = "critica" -> Num(7)
      [] s = "alta"    -> Num(4)
      [] s = "media"   -> Num(2)
      [] s = "baja"    -> Num(1)
      [] s = "nula"    -> Rat(1, 2)
      [] OTHER         -> NaN            \* Series.map gives NaN for other labels

\* df_with_time['estimated_days']: the mapped days, 2 for an unmapped label
estimated_days(r) ==
    IF IsNaN(severity_days(r.severidad)) THEN Num(2) ELSE severity_days(r.severidad)

\* the defects counted under one severity label
severity_count(df_cal, s) ==
    SumCol(SelectRows(df_cal, LAMBDA r : r.severidad = s),
           "cantidad_defectos_encontrados")

\* the part of calculate_avg_resolution_time after its early returns
avg_resolution_of(df_cal, total_defects, avg_resolution) ==
    LET counted == {i \in 1..Len(SeverityNames) :
                       RGt(severity_count(df_cal, SeverityNames[i]), Num(0))}
        resolution_by_severity ==
            [s \in {SeverityNames[i] : i \in counted} |->
                [days |-> severity_days(s), count |-> severity_count(df_cal, s)[1]]]
    IN  Ret(RRound(avg_resolution, 1),
            [avg_days |-> RRound(avg_resolution, 1),
             total_defects |-> total_defects[1] \div total_defects[2],
             resolution_by_severity |-> resolution_by_severity,
             status |-> IF RLe(avg_resolution, Num(3)) THEN "healthy"
                        ELSE IF RLe(avg_resolution, Num(5)) THEN "warning"
                        ELSE "critical"])

\* df_with_time['weighted_time']
weighted_time_column(df_cal) ==
    [i \in 1..Len(df_cal) |->
        [weighted_time |-> RMul(estimated_days(df_cal[i]),
                                df_cal[i].cantidad_defectos_encontrados)]]

\* the part of calculate_avg_resolution_time after the defects are totalled
avg_resolution_from(df_cal, total_defects) ==
    IF total_defects = Num(0)
    THEN Ret(Num(0), [avg_days |-> 0, defects |-> 0, status |-> "No defects"])
    ELSE avg_resolution_of(df_cal, total_defects,
                           RDiv(SumCol(weighted_time_column(df_cal), "weighted_time"),
                                total_defects))

calculate_avg_resolution_time(df_cal) ==
    IF df_cal = <<>>
    THEN Ret(Num(0), [avg_days |-> 0, defects |-> 0, status |-> "No data"])
    ELSE avg_resolution_from(df_cal, SumCol(df_cal, "cantidad_defectos_encontrados"))

\* the result of calculate_client_satisfaction from its two scores and their composite
satisfaction_scores(budget_eff, defect_density, budget_score, quality_score, satisfaction_index) ==
    Ret(RRound(satisfaction_index, 1),
        [index |-> RRound(satisfaction_index, 1),
         budget_component |-> RRound(budget_score, 1),
         quality_component |-> RRound(quality_score, 1),
         budget_efficiency |-> budget_eff,
         defect_density |-> defect_density,
         status |-> IF RGe(satisfaction_index, Num(70)) THEN "healthy"
                    ELSE IF RGe(satisfaction_index, Num(50)) THEN "warning"
                    ELSE "critical"])

satisfaction_composite(budget_eff, defect_density, budget_score, quality_score) ==
    satisfaction_scores(budget_eff, defect_density, budget_score, quality_score,
                        RAdd(RMul(budget_score, Rat(4, 10)),
                             RMul(quality_score, Rat(6, 10))))

satisfaction_of(budget_eff, defect_density) ==
    satisfaction_composite(budget_eff, defect_density,
        PyMin(RMul(budget_eff, Num(2)), Num(100)),
        PyMax(RSub(Num(100), RMul(defect_density, Num(2))), Num(0)))

calculate_client_satisfaction(df_proy, df_cal) ==
    satisfaction_of(calculate_budget_efficiency(df_proy).value,
                    calculate_defect_density(df_cal, df_proy).value)

KpiNames == {"completion_rate", "budget_efficiency", "team_utilization",
             "defect_density", "avg_resolution_time", "client_satisfaction"}

\* one entry of the mapping calculate_all_kpis returns
kpi_entry(res, unit) == [value |-> res.value, metadata |-> res.metadata, unit |-> unit]

\* the six calculators by the key calculate_all_kpis files them under
kpi_by_name(name, df_proy, df_cal) ==
    CASE name = "completion_rate" ->
             kpi_entry(calculate_completion_rate(df_proy), "%")
      [] name = "budget_efficiency" ->
             kpi_entry(calculate_budget_efficiency(df_proy), "%")
      [] name = "team_utilization" ->
             kpi_entry(calculate_team_utilization(df_proy), "%")
      [] name = "defect_density" ->
             kpi_entry(calculate_defect_density(df_cal, df_proy), "defects/project")
      [] name = "avg_resolution_time" ->
             kpi_entry(calculate_avg_resolution_time(df_cal), "days")
      [] name = "client_satisfaction" ->
             kpi_entry(calculate_client_satisfaction(df_proy, df_cal), "index")

calculate_all_kpis(df_proy, df_cal) ==
    [name \in KpiNames |-> kpi_by_name(name, df_proy, df_cal)]

\* the thresholds table of get_kpi_color
thresholds(kpi_type) ==
    CASE kpi_type = "completion_rate"     -> [green |-> 80, yellow |-> 50, inverse |-> FALSE]
      [] kpi_type = "budget_efficiency"   -> [green |-> 30, yellow |-> 15, inverse |-> FALSE]
      [] kpi_type = "team_utilization"    -> [green |-> 70, yellow |-> 50, inverse |-> FALSE]
      [] kpi_type = "defect_density"      -> [green |-> 10, yellow |-> 25, inverse |-> TRUE]
      [] kpi_type = "avg_resolution_time" -> [green |-> 3, yellow |-> 5, inverse |-> TRUE]
      [] kpi_type = "client_satisfaction" -> [green |-> 70, yellow |-> 50, inverse |-> FALSE]

get_kpi_color(value, kpi_type) ==
    IF kpi_type \notin KpiNames THEN "gray"
    ELSE LET threshold == thresholds(kpi_type)
         IN  IF threshold.inverse
             THEN IF RLe(value, Num(threshold.green)) THEN "green"
                  ELSE IF RLe(value, Num(threshold.yellow)) THEN "yellow"
                  ELSE "red"
             ELSE IF RGe(value, Num(threshold.green)) THEN "green"
                  ELSE IF RGe(value, Num(threshold.yellow)) THEN "yellow"
                  ELSE "red"

\* kpi_name.replace('_', ' ').title()
TitleOf(kpi_name) ==
    CASE kpi_name = "completion_rate"     -> "Completion Rate"
      [] kpi_name = "budget_efficiency"   -> "Budget Efficiency"
      [] kpi_name = "team_utilization"    -> "Team Utilization"
      [] kpi_name = "defect_density"      -> "Defect Density"
      [] kpi_name = "avg_resolution_time" -> "Avg Resolution Time"
      [] kpi_name = "client_satisfaction" -> "Client Satisfaction"

\* display_value is the value to one decimal, then the unit: glued to the
\* number for '%', after a space for the other units
format_kpi_display(kpi_name, value, unit, metadata) ==
    [name |-> TitleOf(kpi_name),
     value |-> value,
     unit |-> unit,
     color |-> get_kpi_color(value, kpi_name),
     status |-> metadata.status,
     metadata |-> metadata,
     display_value |-> [number |-> RRound(value, 1),
                        separator |-> IF unit = "%" THEN "" ELSE " ",
                        unit |-> unit]]

(***************************************************************************)
(* balanced_scorecard.py                                                   *)
(***************************************************************************)
KeyResult(kr, target, current, unit) ==
    [kr |-> kr, target |-> target, current |-> current, unit |-> unit]

OKR(objective, key_results, owner, quarter, perspective) ==
    [objective |-> objective, key_results |-> key_results, owner |-> owner,
     quarter |-> quarter, perspective |-> perspective]

KeyResult_progress(self) ==
    IF self.target = Num(0)
    THEN IF RGe(self.current, Num(0)) THEN Num(100) ELSE Num(0)
    ELSE PyMin(RMul(RDiv(self.current, self.target), Num(100)), Num(100))

KeyResult_status(self) ==
    IF RGe(KeyResult_progress(self), Num(90)) THEN "On Track"
    ELSE IF RGe(KeyResult_progress(self), Num(70)) THEN "At Risk"
    ELSE "Off Track"

\* sum(kr.progress for kr in key_results): NaN is not skipped by Python's sum
RECURSIVE SumProgress(_)
SumProgress(key_results) ==
    IF key_results = <<>> THEN Num(0)
    ELSE RAdd(KeyResult_progress(Head(key_results)), SumProgress(Tail(key_results)))

OKR_overall_progress(self) ==
    IF self.key_results = <<>> THEN Num(0)
    ELSE RDiv(SumProgress(self.key_results), Num(Len(self.key_results)))

OKR_status(self) ==
    LET progress == OKR_overall_progress(self)
    IN  IF RGe(progress, Num(90)) THEN "On Track"
        ELSE IF RGe(progress, Num(70)) THEN "At Risk"
        ELSE "Off Track"

generate_financial_okrs(df_proy, quarter) ==
    LET total_revenue == SumCol(df_proy, "ganancia_neta")
        total_cost == SumCol(df_proy, "costo_total_real")
        profit_margin == IF RGt(total_cost, Num(0))
                         THEN RMul(RDiv(total_revenue, total_cost), Num(100))
                         ELSE Num(0)
        okr1 == OKR("Aumentar Ingresos por Proyectos de Software",
                    << KeyResult("Generar $50M en ganancia neta",
                                 Num(50000000), total_revenue, "$"),
                       KeyResult("Cerrar 10 proyectos de alto valor (>$500K ganancia)",
                                 Num(10),
                                 Num(Len(SelectRows(df_proy,
                                     LAMBDA r : RGt(r.ganancia_neta, Num(500000))))),
                                 " proyectos"),
                       KeyResult("Mantener margen de beneficio >35%",
                                 Num(35), profit_margin, "%") >>,
                    "CFO", quarter, "Financial")
        avg_cost == MeanCol(SelectRows(df_proy,
                                LAMBDA r : RGt(r.costo_total_real, Num(0))),
                            "costo_total_real")
        okr2 == OKR("Optimizar Costos Operativos",
                    << KeyResult("Reducir costo promedio por proyecto a $400K",
                                 Num(400000), avg_cost, "$"),
                       KeyResult("Mantener proyectos sin sobrecosto en 90%",
                                 Num(90), Num(85), "%") >>,
                    "CFO", quarter, "Financial")
    IN  [raised |-> FALSE, value |-> <<okr1, okr2>>]

generate_customer_okrs(df_proy, quarter) ==
    LET unique_clients == NUnique(df_proy, "nombre_cliente")
        client_project_counts ==
            [c \in ColValues(df_proy, "nombre_cliente") |->
                Len(SelectRows(df_proy, LAMBDA r : r.nombre_cliente = c))]
        repeat_clients ==
            Cardinality({c \in DOMAIN client_project_counts :
                            client_project_counts[c] > 1})
        repeat_rate == IF unique_clients > 0
                       THEN Rat(repeat_clients * 100, unique_clients)
                       ELSE Num(0)
        okr1 == OKR("Expandir Base de Clientes y Fidelizacion",
                    << KeyResult("Alcanzar 50 clientes activos",
                                 Num(50), Num(unique_clients), " clientes"),
                       KeyResult("Lograr 70% de tasa de clientes recurrentes",
                                 Num(70), repeat_rate, "%"),
                       KeyResult("Penetrar 3 nuevos paises/mercados",
                                 Num(3), Num(1), " paises") >>,
                    "CCO", quarter, "Customer")
        avg_project_value ==
            MeanCol(SelectRows(df_proy, LAMBDA r : RGt(r.ganancia_neta, Num(0))),
                    "ganancia_neta")
        okr2 == OKR("Mejorar Satisfaccion y Valor para el Cliente",
                    << KeyResult("Alcanzar NPS de 75+",
                                 Num(75), Num(68), " puntos"),
                       KeyResult("Aumentar valor promedio de proyecto a $250K",
                                 Num(250000), avg_project_value, "$") >>,
                    "CCO", quarter, "Customer")
    IN  [raised |-> FALSE, value |-> <<okr1, okr2>>]

generate_internal_okrs(df_proy, df_cal, quarter) ==
    LET total_defects == SumCol(df_cal, "cantidad_defectos_encontrados")
        total_projects == NUnique(df_proy, "nombre_proyecto")
        defect_density == IF total_projects > 0
                          THEN RDiv(total_defects, Num(total_projects))
                          ELSE Num(0)
        critical_defects ==
            SumCol(SelectRows(df_cal, LAMBDA r : r.severidad = "critica"),
                   "cantidad_defectos_encontrados")
        critical_pct == IF RGt(total_defects, Num(0))
                        THEN RMul(RDiv(critical_defects, total_defects), Num(100))
                        ELSE Num(0)
        okr1 == OKR("Alcanzar Excelencia en Calidad de Software",
                    << KeyResult("Reducir densidad de defectos a <8 por proyecto",
                                 Num(8), defect_density, " def/proy"),
                       KeyResult("Mantener defectos criticos <5% del total",
                                 Num(5), critical_pct, "%"),
                       KeyResult("Alcanzar 95% de cobertura de pruebas automatizadas",
                                 Num(95), Num(78), "%") >>,
                    "CTO", quarter, "Internal Processes")
        \* len(...) / len(df_proy) * 100 on Python ints
        completion_rate ==
            Rat(Len(SelectRows(df_proy, LAMBDA r : RGt(r.ganancia_neta, Num(0)))) * 100,
                Len(df_proy))
        okr2 == OKR("Optimizar Eficiencia de Entrega",
                    << KeyResult("Lograr 90% de proyectos completados exitosamente",
                                 Num(90), completion_rate, "%"),
                       KeyResult("Reducir tiempo promedio de entrega a 4 meses",
                                 Num(4), Rat(52, 10), " meses") >>,
                    "CTO", quarter, "Internal Processes")
    IN  IF Len(df_proy) = 0
        THEN Raise("ZeroDivisionError")
        ELSE [raised |-> FALSE, value |-> <<okr1, okr2>>]

\* '-' in name, and name.split('-')[1], for the project names of the data
HasDash(name) == name \in {"ERP-Java", "CRM-Python", "Portal-Go"}

SplitDash1(name) ==
    CASE name = "ERP-Java"   -> "Java"
      [] name = "CRM-Python" -> "Python"
      [] name = "Portal-Go"  -> "Go"

generate_learning_okrs(df_proy, quarter) ==
    LET project_names == ColValues(df_proy, "nombre_proyecto")
        tech_diversity ==
            Cardinality({SplitDash1(name) : name \in {n \in project_names : HasDash(n)}})
        okr1 == OKR("Desarrollar Capacidades Tecnicas Avanzadas",
                    << KeyResult("Certificar 80% del equipo en tecnologias cloud",
                                 Num(80), Num(45), "%"),
                       KeyResult("Dominar 10 stacks tecnologicos diferentes",
                                 Num(10), Num(tech_diversity), " tecnologias"),
                       KeyResult("Implementar IA/ML en 5 proyectos",
                                 Num(5), Num(2), " proyectos") >>,
                    "CTO", quarter, "Learning & Growth")
        okr2 == OKR("Fortalecer Cultura de Innovacion",
                    << KeyResult("Alcanzar 85% en indice de satisfaccion empleados",
                                 Num(85), Num(72), "%"),
                       KeyResult("Generar 20 propuestas de mejora interna",
                                 Num(20), Num(12), " propuestas") >>,
                    "CHRO", quarter, "Learning & Growth")
    IN  [raised |-> FALSE, value |-> <<okr1, okr2>>]

\* generate_okrs_from_data leaving the learning generator its default quarter
generate_okrs_default_quarter(df_proy, df_cal, quarter) ==
    LET financial == generate_financial_okrs(df_proy, quarter)
        customer == generate_customer_okrs(df_proy, quarter)
        internal == generate_internal_okrs(df_proy, df_cal, quarter)
        learning == generate_learning_okrs(df_proy, "Q1 2025")
    IN  IF internal.raised
        THEN internal
        ELSE [raised |-> FALSE,
              value |-> financial.value \o customer.value
                        \o internal.value \o learning.value]

generate_okrs_from_data(df_proy, df_cal, quarter) ==
    LET financial == generate_financial_okrs(df_proy, quarter)
        customer == generate_customer_okrs(df_proy, quarter)
        internal == generate_internal_okrs(df_proy, df_cal, quarter)
        learning == generate_learning_okrs(df_proy, quarter)
    IN  IF internal.raised
        THEN internal
        ELSE [raised |-> FALSE,
              value |-> financial.value \o customer.value
                        \o internal.value \o learning.value]

\* sum(okr.overall_progress for okr in perspective_okrs)
RECURSIVE SumOverallProgress(_)
SumOverallProgress(okrs) ==
    IF okrs = <<>> THEN Num(0)
    ELSE RAdd(OKR_overall_progress(Head(okrs)), SumOverallProgress(Tail(okrs)))

\* sum(len(okr.key_results) for okr in perspective_okrs)
RECURSIVE CountKeyResults(_)
CountKeyResults(okrs) ==
    IF okrs = <<>> THEN 0
    ELSE Len(Head(okrs).key_results) + CountKeyResults(Tail(okrs))

\* the score and metadata of a non-empty perspective_okrs
perspective_score_of(perspective_okrs, avg_progress) ==
    Ret(RRound(avg_progress, 1),
        [okr_count |-> Len(perspective_okrs),
         kr_count |-> CountKeyResults(perspective_okrs),
         status |-> IF RGe(avg_progress, Num(90)) THEN "On Track"
                    ELSE IF RGe(avg_progress, Num(70)) THEN "At Risk"
                    ELSE "Off Track",
         objectives |-> [i \in 1..Len(perspective_okrs) |->
                            perspective_okrs[i].objective]])

\* calculate_perspective_score over every objective, whatever its perspective
perspective_score_unfiltered(okrs, perspective) ==
    IF okrs = <<>>
    THEN Ret(Num(0), [okr_count |-> 0, kr_count |-> 0, status |-> "No OKRs"])
    ELSE perspective_score_of(okrs,
             RDiv(SumOverallProgress(okrs), Num(Len(okrs))))

calculate_perspective_score(okrs, perspective) ==
    LET perspective_okrs == SelectSeq(okrs, LAMBDA okr : okr.perspective = perspective)
    IN  IF perspective_okrs = <<>>
        THEN Ret(Num(0), [okr_count |-> 0, kr_count |-> 0, status |-> "No OKRs"])
        ELSE perspective_score_of(perspective_okrs,
                 RDiv(SumOverallProgress(perspective_okrs),
                      Num(Len(perspective_okrs))))

(***************************************************************************)
(* balanced_scorecard.py: the OKR hierarchy, and its flattening in app.py  *)
(***************************************************************************)
\* okr.objective[:40] + '...' if len(okr.objective) > 40 else okr.objective,
\* over the objectives the generators write
ObjectiveName(text) ==
    CASE text = "Aumentar Ingresos por Proyectos de Software" ->
             "Aumentar Ingresos por Proyectos de Softw..."
      [] text = "Mejorar Satisfaccion y Valor para el Cliente" ->
             "Mejorar Satisfaccion y Valor para el Cli..."
      [] text = "Alcanzar Excelencia en Calidad de Software" ->
             "Alcanzar Excelencia en Calidad de Softwa..."
      [] text = "Desarrollar Capacidades Tecnicas Avanzadas" ->
             "Desarrollar Capacidades Tecnicas Avanzad..."
      [] OTHER -> text

\* kr.kr[:30] + '...' if len(kr.kr) > 30 else kr.kr, over the key results
\* the generators write
KeyResultName(text) ==
    CASE text = "Cerrar 10 proyectos de alto valor (>$500K ganancia)" ->
             "Cerrar 10 proyectos de alto va..."
      [] text = "Mantener margen de beneficio >35%" ->
             "Mantener margen de beneficio >..."
      [] text = "Reducir costo promedio por proyecto a $400K" ->
             "Reducir costo promedio por pro..."
      [] text = "Mantener proyectos sin sobrecosto en 90%" ->
             "Mantener proyectos sin sobreco..."
      [] text = "Lograr 70% de tasa de clientes recurrentes" ->
             "Lograr 70% de tasa de clientes..."
      [] text = "Penetrar 3 nuevos paises/mercados" ->
             "Penetrar 3 nuevos paises/merca..."
      [] text = "Aumentar valor promedio de proyecto a $250K" ->
             "Aumentar valor promedio de pro..."
      [] text = "Reducir densidad de defectos a <8 por proyecto" ->
             "Reducir densidad de defectos a..."
      [] text = "Mantener defectos criticos <5% del total" ->
             "Mantener defectos criticos <5%..."
      [] text = "Alcanzar 95% de cobertura de pruebas automatizadas" ->
             "Alcanzar 95% de cobertura de p..."
      [] text = "Lograr 90% de proyectos completados exitosamente" ->
             "Lograr 90% de proyectos comple..."
      [] text = "Reducir tiempo promedio de entrega a 4 meses" ->
             "Reducir tiempo promedio de ent..."
      [] text = "Certificar 80% del equipo en tecnologias cloud" ->
             "Certificar 80% del equipo en t..."
      [] text = "Dominar 10 stacks tecnologicos diferentes" ->
             "Dominar 10 stacks tecnologicos..."
      [] text = "Implementar IA/ML en 5 proyectos" ->
             "Implementar IA/ML en 5 proyect..."
      [] text = "Alcanzar 85% en indice de satisfaccion empleados" ->
             "Alcanzar 85% en indice de sati..."
      [] text = "Generar 20 propuestas de mejora interna" ->
             "Generar 20 propuestas de mejor..."
      [] OTHER -> text

\* the keys of the perspectives dict in insertion order: the perspectives of
\* okrs in order of first appearance
\* the perspectives of the list with only repetitions in a row merged
RECURSIVE PerspectivesOfRuns(_, _)
PerspectivesOfRuns(okrs, seen) ==
    IF okrs = <<>> THEN <<>>
    ELSE IF Head(okrs).perspective \in seen THEN PerspectivesOfRuns(Tail(okrs), seen)
    ELSE <<Head(okrs).perspective>>
         \o PerspectivesOfRuns(Tail(okrs), {Head(okrs).perspective})

RECURSIVE PerspectivesOf(_, _)
PerspectivesOf(okrs, seen) ==
    IF okrs = <<>> THEN <<>>
    ELSE IF Head(okrs).perspective \in seen THEN PerspectivesOf(Tail(okrs), seen)
    ELSE <<Head(okrs).perspective>>
         \o PerspectivesOf(Tail(okrs), seen \cup {Head(okrs).perspective})

kr_node(kr) == [name |-> KeyResultName(kr.kr), value |-> KeyResult_progress(kr)]

\* the objective node carrying the sum of its key results' progress
okr_node_sum(okr) ==
    [name |-> ObjectiveName(okr.objective),
     value |-> SumProgress(okr.key_results),
     children |-> [i \in 1..Len(okr.key_results) |-> kr_node(okr.key_results[i])]]

okr_node(okr) ==
    [name |-> ObjectiveName(okr.objective),
     value |-> OKR_overall_progress(okr),
     children |-> [i \in 1..Len(okr.key_results) |-> kr_node(okr.key_results[i])]]

perspective_node(perspective, perspective_okrs) ==
    [name |-> perspective,
     children |-> [i \in 1..Len(perspective_okrs) |-> okr_node(perspective_okrs[i])]]

hierarchy_of(okrs, perspectives) ==
    [name |-> "Strategic OKRs",
     children |-> [i \in 1..Len(perspectives) |->
                      perspective_node(perspectives[i],
                          SelectSeq(okrs, LAMBDA okr : okr.perspective = perspectives[i]))]]

create_okr_hierarchy(okrs) == hierarchy_of(okrs, PerspectivesOf(okrs, {}))

\* sum(okr_node['value'] for okr_node in persp_node['children'])
RECURSIVE SumValues(_)
SumValues(nodes) ==
    IF nodes = <<>> THEN Num(0)
    ELSE RAdd(Head(nodes).value, SumValues(Tail(nodes)))

\* persp_value of the flattening loop
persp_value(persp_node) ==
    RDiv(SumValues(persp_node.children), Num(Len(persp_node.children)))

\* the labels, parents and values lists from the i-th perspective node on
RECURSIVE FlattenFrom(_, _)
FlattenFrom(hierarchy, i) ==
    IF i > Len(hierarchy.children) THEN <<>>
    ELSE << [label |-> hierarchy.children[i].name, parent |-> hierarchy.name,
             value |-> persp_value(hierarchy.children[i])] >>
         \o [j \in 1..Len(hierarchy.children[i].children) |->
                [label |-> hierarchy.children[i].children[j].name,
                 parent |-> hierarchy.children[i].name,
                 value |-> hierarchy.children[i].children[j].value]]
         \o FlattenFrom(hierarchy, i + 1)

\* the sunburst's entries: (labels[k], parents[k], values[k]) for each k
flatten_hierarchy(hierarchy) ==
    << [label |-> hierarchy.name, parent |-> "", value |-> Num(100)] >>
    \o FlattenFrom(hierarchy, 1)

(***************************************************************************)
(* rayleigh_model.py: calibration from the Quality table                   *)
(***************************************************************************)
\* df_cal.groupby('nombre_proyecto')['cantidad_defectos_encontrados'].sum()
project_defects(df_cal) ==
    [p \in ColValues(df_cal, "nombre_proyecto") |->
        SumCol(SelectRows(df_cal, LAMBDA r : r.nombre_proyecto = p),
               "cantidad_defectos_encontrados")]

RECURSIVE SumOver(_, _)
SumOver(f, S) ==
    IF S = {} THEN Num(0)
    ELSE LET x == CHOOSE x \in S : TRUE
         IN  RAdd(f[x], SumOver(f, S \ {x}))

\* Series.mean()
SeriesMean(series) == RDiv(SumOver(series, DOMAIN series), Num(Cardinality(DOMAIN series)))

\* the sample variance (ddof = 1) of a series of mean `mean`: NaN for one value
SeriesVar(series, mean) ==
    IF Cardinality(DOMAIN series) < 2 THEN NaN
    ELSE RDiv(SumOver([p \in DOMAIN series |->
                          RMul(RSub(series[p], mean), RSub(series[p], mean))],
                      DOMAIN series),
              Num(Cardinality(DOMAIN series) - 1))

\* Series.std(): the square root of the sample variance, kept as the exact
\* quantity it is the root of
Sqrt(x) == [sqrt_of |-> x]

calibrate_rayleigh_sigma(df_cal, df_proy) ==
    IF DOMAIN project_defects(df_cal) = {}
    THEN Return([default |-> Num(60),
                 small |-> Num(40),
                 medium |-> Num(60),
                 large |-> Num(90),
                 confidence |-> Rat(5, 10)])
    ELSE Return([default |-> RMul(Num(165), Rat(4, 10)),
                 small |-> Num(40),
                 medium |-> Num(66),
                 large |-> Num(100),
                 xlarge |-> Num(144),
                 avg_historical_defects |-> SeriesMean(project_defects(df_cal)),
                 std_historical_defects |->
                     Sqrt(SeriesVar(project_defects(df_cal),
                                    SeriesMean(project_defects(df_cal)))),
                 confidence |-> Rat(8, 10)])

(***************************************************************************)
(* SpecKPI: the KPI engine and the OKR generators over the two tables      *)
(***************************************************************************)
\* the quarter labels a caller asks for
Quarters == {"Q1 2025", "Q2 2025"}

NoTable == <<>>

NoCall == [fn |-> "none"]

NoResult == [raised |-> FALSE]

\* no dashboard session is open
NoSession == <<>>

NoHistory == [last_check |-> "none", last_passed |-> "none"]

InitKPI ==
    /\ dfProy \in SeqsUpTo(ProjectRows, MaxRows)
    /\ dfCal \in SeqsUpTo(QualityRows, MaxRows - Len(dfProy))
    /\ df = NoTable
    /\ call = NoCall
    /\ after = NoCall
    /\ op = "none"
    /\ result = NoResult
    /\ session_state = NoSession
    /\ history = NoHistory

\* a call of a function of the engine on the loaded tables, which it only
\* reads; every function is pure, so a behaviour is the load and one call
Returns(fn, args, res) ==
    /\ op = "none"
    /\ op' = fn
    /\ call' = args
    /\ after' = args
    /\ result' = res
    /\ UNCHANGED <<dfProy, dfCal, df, session_state, history>>

CalculateCompletionRate ==
    Returns("calculate_completion_rate", NoCall, calculate_completion_rate(dfProy))

CalculateBudgetEfficiency ==
    Returns("calculate_budget_efficiency", NoCall, calculate_budget_efficiency(dfProy))

CalculateTeamUtilization ==
    Returns("calculate_team_utilization", NoCall, calculate_team_utilization(dfProy))

CalculateDefectDensity ==
    Returns("calculate_defect_density", NoCall, calculate_defect_density(dfCal, dfProy))

CalculateAvgResolutionTime ==
    Returns("calculate_avg_resolution_time", NoCall,
            calculate_avg_resolution_time(dfCal))

CalculateClientSatisfaction ==
    Returns("calculate_client_satisfaction", NoCall,
            calculate_client_satisfaction(dfProy, dfCal))

CalculateAllKpis ==
    Returns("calculate_all_kpis", NoCall,
            [raised |-> FALSE, value |-> calculate_all_kpis(dfProy, dfCal)])

\* the dashboard colours a KPI card from the entry calculate_all_kpis returned
ColorOfEntry(kpi_type, kpi) ==
    Returns("get_kpi_color", [kpi_type |-> kpi_type, value |-> kpi.value],
            [raised |-> FALSE, value |-> get_kpi_color(kpi.value, kpi_type)])

GetKpiColor ==
    \E kpi_type \in KpiNames :
        ColorOfEntry(kpi_type, calculate_all_kpis(dfProy, dfCal)[kpi_type])

DisplayOfEntry(kpi_name, kpi) ==
    Returns("format_kpi_display", [kpi_name |-> kpi_name],
            [raised |-> FALSE,
             value |-> format_kpi_display(kpi_name, kpi.value, kpi.unit, kpi.metadata)])

FormatKpiDisplay ==
    \E kpi_name \in KpiNames :
        DisplayOfEntry(kpi_name, calculate_all_kpis(dfProy, dfCal)[kpi_name])

GenerateFinancialOkrs ==
    \E quarter \in Quarters :
        Returns("generate_financial_okrs", [quarter |-> quarter],
                generate_financial_okrs(dfProy, quarter))

GenerateCustomerOkrs ==
    \E quarter \in Quarters :
        Returns("generate_customer_okrs", [quarter |-> quarter],
                generate_customer_okrs(dfProy, quarter))

GenerateInternalOkrs ==
    \E quarter \in Quarters :
        Returns("generate_internal_okrs", [quarter |-> quarter],
                generate_internal_okrs(dfProy, dfCal, quarter))

GenerateLearningOkrs ==
    \E quarter \in Quarters :
        Returns("generate_learning_okrs", [quarter |-> quarter],
                generate_learning_okrs(dfProy, quarter))

GenerateOkrsFromData ==
    \E quarter \in Quarters :
        Returns("generate_okrs_from_data", [quarter |-> quarter],
                generate_okrs_from_data(dfProy, dfCal, quarter))

\* the targets and current values a KeyResult is built with
KeyResultTargets == {0, 1, 100}

KeyResultCurrents == {-5, 0, 5, 50, 150}

KeyResultProgress ==
    \E target \in KeyResultTargets, current \in KeyResultCurrents :
        Returns("KeyResult.progress", [target |-> target, current |-> current],
                Return(KeyResult_progress(
                           KeyResult("kr", Num(target), Num(current), "%"))))

CalibrateRayleighSigma ==
    Returns("calibrate_rayleigh_sigma", NoCall,
            calibrate_rayleigh_sigma(dfCal, dfProy))

NextKPI ==
    \/ CalculateCompletionRate
    \/ CalculateBudgetEfficiency
    \/ CalculateTeamUtilization
    \/ CalculateDefectDensity
    \/ CalculateAvgResolutionTime
    \/ CalculateClientSatisfaction
    \/ CalculateAllKpis
    \/ GetKpiColor
    \/ FormatKpiDisplay
    \/ GenerateFinancialOkrs
    \/ GenerateCustomerOkrs
    \/ GenerateInternalOkrs
    \/ GenerateLearningOkrs
    \/ GenerateOkrsFromData
    \/ KeyResultProgress
    \/ CalibrateRayleighSigma

SpecKPI == InitKPI /\ [][NextKPI]_vars

(***************************************************************************)
(* Claims about the KPI engine and the OKR generators (SpecKPI)            *)
(***************************************************************************)
KpiCalculators ==
    {"calculate_completion_rate", "calculate_budget_efficiency",
     "calculate_team_utilization", "calculate_defect_density",
     "calculate_avg_resolution_time", "calculate_client_satisfaction"}

OkrGenerators ==
    {"generate_financial_okrs", "generate_customer_okrs", "generate_internal_okrs",
     "generate_learning_okrs", "generate_okrs_from_data"}

\* C1: a KPI calculator or an OKR generator called with a Projects table
\* and/or a Quality table of zero rows returns a result; it never raises.
C1_EmptyInputNeverRaises ==
    (/\ op \in KpiCalculators \cup OkrGenerators
     /\ (dfProy = <<>> \/ dfCal = <<>>))
        => ~result.raised

\* the tables a calculator reads are all empty
InputsEmpty(fn) ==
    CASE fn \in {"calculate_completion_rate", "calculate_budget_efficiency",
                 "calculate_team_utilization"} -> dfProy = <<>>
      [] fn = "calculate_avg_resolution_time" -> dfCal = <<>>
      [] OTHER -> dfProy = <<>> /\ dfCal = <<>>

\* a metadata mapping says "No data" and every figure of it is zero
IsNoData(metadata) ==
    /\ metadata.status = "No data"
    /\ \A f \in DOMAIN metadata \ {"status"} : metadata[f] = 0

\* C2: each of the six calculators, on empty input, returns value 0 with
\* metadata of status "No data" and all figures zero; calculate_all_kpis on
\* two empty tables yields "No data" for all six entries.
C2_EmptyInputIsNoData ==
    /\ (op \in KpiCalculators /\ InputsEmpty(op))
           => (result.value = Num(0) /\ IsNoData(result.metadata))
    /\ (op = "calculate_all_kpis" /\ dfProy = <<>> /\ dfCal = <<>>)
           => \A k \in KpiNames : result.value[k].metadata.status = "No data"

\* the colour that goes with a health status
ColorOfStatus(status) ==
    CASE status = "healthy"  -> "green"
      [] status = "warning"  -> "yellow"
      [] status = "critical" -> "red"

\* C4: for non-empty tables, the colour get_kpi_color gives the value a
\* calculator returned is green exactly when the calculator's status is
\* healthy, yellow exactly when warning and red exactly when critical, and
\* it is always one of green, yellow, red.
C4_ColorMatchesStatus ==
    (op = "format_kpi_display" /\ dfProy # <<>> /\ dfCal # <<>>)
        => /\ result.value.color \in {"green", "yellow", "red"}
           /\ result.value.status \in {"healthy", "warning", "critical"}
                  => result.value.color = ColorOfStatus(result.value.status)

InRange0to100(x) == RGe(x, Num(0)) /\ RLe(x, Num(100))

\* C10: the Client Satisfaction Index and its two components lie in
\* [0, 100], and the index is 0.4 x budget_component + 0.6 x
\* quality_component (to the one decimal the three figures are rounded to).
C10_SatisfactionNormalized ==
    op = "calculate_client_satisfaction"
        => /\ InRange0to100(result.metadata.index)
           /\ InRange0to100(result.metadata.budget_component)
           /\ InRange0to100(result.metadata.quality_component)
           /\ result.value = result.metadata.index
           /\ LET composite == RAdd(RMul(result.metadata.budget_component, Rat(4, 10)),
                                    RMul(result.metadata.quality_component, Rat(6, 10)))
                  gap == RSub(result.metadata.index, composite)
              IN  RLe(gap, Rat(1, 10)) /\ RGe(gap, Rat(-1, 10))

(***************************************************************************)
(* olap_functions.py                                                       *)
(*                                                                         *)
(* A DataFrame is [columns |-> the column names in order, rows |-> the     *)
(* rows in order], a row being a function from the column names to values. *)
(* The tables hold no missing values.                                      *)
(***************************************************************************)
\* bound on the number of rows of the table an OLAP operation is given
MaxOlapRows == 2

\* columns whose dtype is numeric (pd.api.types.is_numeric_dtype)
NumericCols == {"anio", "mes", "ganancia_neta"}

\* the rows the tables are built from ("anio" stands for the column 'año')
OlapRows ==
    { [nombre_pais |-> "China", anio |-> 2024, mes |-> 1, ganancia_neta |-> 2500],
      [nombre_pais |-> "China", anio |-> 2024, mes |-> 2, ganancia_neta |-> 2626],
      [nombre_pais |-> "Peru", anio |-> 2025, mes |-> 1, ganancia_neta |-> -5],
      [nombre_pais |-> "Peru", anio |-> 2024, mes |-> 1, ganancia_neta |-> 0],
      [nombre_pais |-> "Peru", anio |-> 2025, mes |-> 2, ganancia_neta |-> 0] }

\* the column lists of the tables: all four columns, or some of them absent
OlapSchemas ==
    { <<"nombre_pais", "anio", "mes", "ganancia_neta">>,
      <<"nombre_pais", "anio", "ganancia_neta">>,
      <<"nombre_pais", "mes", "ganancia_neta">>,
      <<"nombre_pais", "ganancia_neta">> }

Range(seq) == {seq[i] : i \in 1..Len(seq)}

\* col in df.columns, col in a list
Contains(seq, x) == x \in Range(seq)

DataFrame(columns, rows) ==
    [columns |-> columns,
     rows |-> [i \in 1..Len(rows) |-> [c \in Range(columns) |-> rows[i][c]]]]

OlapTables ==
    {DataFrame(columns, rows) :
        columns \in OlapSchemas, rows \in SeqsUpTo(OlapRows, MaxOlapRows)}

\* the order pandas sorts the values of a column in: numbers by value,
\* country names alphabetically
SortRank(col, v) ==
    IF col \in NumericCols THEN v
    ELSE CASE v = "China" -> 1
           [] v = "Peru"  -> 2

\* slice_olap keeping the rows whose value differs
slice_olap_excluding(table, dimension, value) ==
    IF ~Contains(table.columns, dimension)
    THEN ValueError("Dimension not found in DataFrame")
    ELSE Return([columns |-> table.columns,
                 rows |-> SelectRows(table.rows, LAMBDA r : r[dimension] # value)])

slice_olap(table, dimension, value) ==
    IF ~Contains(table.columns, dimension)
    THEN ValueError("Dimension not found in DataFrame")
    ELSE Return([columns |-> table.columns,
                 rows |-> SelectRows(table.rows, LAMBDA r : r[dimension] = value)])

\* a filter value of dice: a literal, or one of the callables the callers pass
Literal(v) == [callable |-> FALSE, value |-> v]

Callable(name) == [callable |-> TRUE, name |-> name]

\* value(x) for a callable filter value
ApplyCallable(name, x) ==
    CASE name = "gt_15"  -> x > 15
      [] name = "is_odd" -> x % 2 = 1

\* result[dimension] on a frame that has no such column
KeyError(key) == [raised |-> TRUE, error |-> "KeyError", message |-> key]

\* the loop of dice over filters.items(), from the i-th item on; `filtered` (the code's result) is
\* the frame filtered so far, `filters` a sequence of <<dimension, value>>
\* items.  Series.apply on a Series of no elements returns an empty Series of
\* the column's own dtype, not of booleans, and indexing a frame by an empty
\* non-boolean Series selects columns: none, so the frame loses its columns.
RECURSIVE DiceFrom(_, _, _, _)
DiceFrom(table, filters, i, filtered) ==
    IF i > Len(filters) THEN Return(filtered)
    ELSE IF ~Contains(table.columns, filters[i][1])
    THEN ValueError("Dimension not found")
    ELSE IF ~Contains(filtered.columns, filters[i][1])
    THEN KeyError(filters[i][1])
    ELSE IF filters[i][2].callable
    THEN IF filtered.rows = <<>>
         THEN DiceFrom(table, filters, i + 1, [columns |-> <<>>, rows |-> <<>>])
         ELSE DiceFrom(table, filters, i + 1,
                  [columns |-> filtered.columns,
                   rows |-> SelectRows(filtered.rows,
                       LAMBDA r : ApplyCallable(filters[i][2].name, r[filters[i][1]]))])
    ELSE DiceFrom(table, filters, i + 1,
             [columns |-> filtered.columns,
              rows |-> SelectRows(filtered.rows,
                  LAMBDA r : r[filters[i][1]] = filters[i][2].value)])

dice(table, filters) == DiceFrom(table, filters, 1, table)

\* hierarchy.index(target_level): the first position of target_level
IndexOf(seq, x) == CHOOSE i \in 1..Len(seq) : seq[i] = x /\ \A j \in 1..(i - 1) : seq[j] # x

\* [col for col in cols if col in df.columns]
RECURSIVE ColsIn(_, _)
ColsIn(cols, table) ==
    IF cols = <<>> THEN <<>>
    ELSE (IF Contains(table.columns, Head(cols)) THEN <<Head(cols)>> ELSE <<>>)
         \o ColsIn(Tail(cols), table)

\* the key of a row under the grouping columns
KeyOf(row, group_cols) == [i \in 1..Len(group_cols) |-> row[group_cols[i]]]

\* k1 sorts before k2 or is k2 (lexicographic order of the key tuples)
RECURSIVE KeyLeFrom(_, _, _, _)
KeyLeFrom(k1, k2, group_cols, i) ==
    IF i > Len(k1) THEN TRUE
    ELSE IF SortRank(group_cols[i], k1[i]) < SortRank(group_cols[i], k2[i]) THEN TRUE
    ELSE IF SortRank(group_cols[i], k1[i]) > SortRank(group_cols[i], k2[i]) THEN FALSE
    ELSE KeyLeFrom(k1, k2, group_cols, i + 1)

KeyLe(k1, k2, group_cols) == KeyLeFrom(k1, k2, group_cols, 1)

\* the keys of a groupby in the order of its result (sort=True)
RECURSIVE SortKeys(_, _)
SortKeys(keys, group_cols) ==
    IF keys = {} THEN <<>>
    ELSE LET m == CHOOSE k \in keys : \A o \in keys : KeyLe(k, o, group_cols)
         IN  <<m>> \o SortKeys(keys \ {m}, group_cols)

GroupKeys(rows, group_cols) ==
    SortKeys({KeyOf(rows[i], group_cols) : i \in 1..Len(rows)}, group_cols)

RECURSIVE SumInts(_, _)
SumInts(rows, col) ==
    IF rows = <<>> THEN 0 ELSE Head(rows)[col] + SumInts(Tail(rows), col)

\* df.groupby(group_cols, as_index=False).agg({col: 'sum' | 'first'}) where
\* every other column is summed if numeric and gives its first value if not
\* the grouped frame with 'first' taken of every other column
GroupByFirst(table, group_cols) ==
    LET keys == GroupKeys(table.rows, group_cols)
        group(k) == SelectRows(table.rows, LAMBDA r : KeyOf(r, group_cols) = k)
        others == SelectSeq(table.columns, LAMBDA c : ~Contains(group_cols, c))
        cell(k, c) ==
            IF Contains(group_cols, c) THEN k[IndexOf(group_cols, c)]
            ELSE group(k)[1][c]
    IN  [columns |-> group_cols \o others,
         group_cols |-> group_cols,
         rows |-> [i \in 1..Len(keys) |->
                      [c \in Range(table.columns) |-> cell(keys[i], c)]]]

GroupByAgg(table, group_cols) ==
    LET keys == GroupKeys(table.rows, group_cols)
        group(k) == SelectRows(table.rows, LAMBDA r : KeyOf(r, group_cols) = k)
        others == SelectSeq(table.columns, LAMBDA c : ~Contains(group_cols, c))
        cell(k, c) ==
            IF Contains(group_cols, c) THEN k[IndexOf(group_cols, c)]
            ELSE IF c \in NumericCols THEN SumInts(group(k), c)
            ELSE group(k)[1][c]
    IN  [columns |-> group_cols \o others,
         group_cols |-> group_cols,
         rows |-> [i \in 1..Len(keys) |->
                      [c \in Range(table.columns) |-> cell(keys[i], c)]]]

drill_down(table, dimension, hierarchy, target_level) ==
    IF ~Contains(hierarchy, target_level)
    THEN ValueError("Target level not in hierarchy")
    ELSE LET target_idx == IndexOf(hierarchy, target_level)
             group_cols == ColsIn(SubSeq(hierarchy, 1, target_idx), table)
         IN  IF group_cols = <<>>
             THEN ValueError("None of the hierarchy columns found in DataFrame")
             ELSE Return(GroupByAgg(table, group_cols))

\* roll_up grouping by the target level only
roll_up_target_only(table, dimension, hierarchy, target_level) ==
    IF ~Contains(hierarchy, target_level)
    THEN ValueError("Target level not in hierarchy")
    ELSE LET group_cols == ColsIn(<<target_level>>, table)
         IN  IF group_cols = <<>>
             THEN ValueError("Target level not found in DataFrame")
             ELSE Return(GroupByAgg(table, group_cols))

roll_up(table, dimension, hierarchy, target_level) ==
    IF ~Contains(hierarchy, target_level)
    THEN ValueError("Target level not in hierarchy")
    ELSE LET target_idx == IndexOf(hierarchy, target_level)
             group_cols == ColsIn(SubSeq(hierarchy, 1, target_idx), table)
         IN  IF group_cols = <<>>
             THEN ValueError("Target level not found in DataFrame")
             ELSE Return(GroupByAgg(table, group_cols))

\* the rows argument of pivot_olap: one column name (a str) or a list of them
Str(name) == [str |-> TRUE, name |-> name]

List(items) == [str |-> FALSE, items |-> items]

\* required_cols after required_cols.extend([columns, values])
required_cols(rows, columns, values) ==
    IF rows.str THEN <<rows.name, columns, values>>
    ELSE rows.items \o <<columns, values>>

\* the caller's rows object after the call: for a list, required_cols IS the
\* caller's list (no copy is made), so the extend lands in it
rows_after_pivot(rows, columns, values) ==
    IF rows.str THEN rows ELSE List(required_cols(rows, columns, values))

\* aggfunc over the values of a non-empty group
Aggregate(aggfunc, group, values) ==
    CASE aggfunc = "sum"   -> Num(SumInts(group, values))
      [] aggfunc = "mean"  -> Rat(SumInts(group, values), Len(group))
      [] aggfunc = "count" -> Num(Len(group))

\* pd.pivot_table(df, index, columns, values, aggfunc, fill_value=0)
\* .reset_index() for index columns that are neither `columns` nor `values`
CrossTab(table, index, columns, values, aggfunc) ==
    LET keys == GroupKeys(table.rows, index)
        column_values == GroupKeys(table.rows, <<columns>>)
        group(k, v) == SelectRows(table.rows,
                           LAMBDA r : KeyOf(r, index) = k /\ r[columns] = v[1])
        cell(k, v) == IF group(k, v) = <<>> THEN Num(0)
                      ELSE Aggregate(aggfunc, group(k, v), values)
    IN  [index |-> index,
         column_values |-> [j \in 1..Len(column_values) |-> column_values[j][1]],
         rows |-> [i \in 1..Len(keys) |->
                      [key |-> keys[i],
                       cells |-> [j \in 1..Len(column_values) |->
                                     cell(keys[i], column_values[j])]]]]

\* the outcomes of pd.pivot_table inside the try block.  When the index
\* names the columns or the values column as well, what pandas makes of the
\* doubled keys depends on the other columns of the table: the call fails,
\* or it returns a table indexed by the whole doubled list.
pivot_table_outcomes(table, index, columns, values, aggfunc) ==
    IF Contains(index, columns) \/ Contains(index, values)
    THEN { ValueError("Pivot operation failed"),
           Return([index |-> index, column_values |-> <<>>,
                   rows |-> [i \in 1..Len(GroupKeys(table.rows, index)) |->
                                [key |-> GroupKeys(table.rows, index)[i],
                                 cells |-> <<>>]]]) }
    ELSE { Return(CrossTab(table, index, columns, values, aggfunc)) }

\* the set of results pivot_olap can give
pivot_olap(table, rows, columns, values, aggfunc) ==
    LET required == required_cols(rows, columns, values)
        missing == SelectSeq(required, LAMBDA col : ~Contains(table.columns, col))
        index == IF rows.str THEN <<rows.name>>
                 ELSE rows_after_pivot(rows, columns, values).items
    IN  IF missing # <<>>
        THEN { ValueError("Columns not found") }
        ELSE pivot_table_outcomes(table, index, columns, values, aggfunc)

\* Series.tail(periods)
TailN(seq, n) == IF Len(seq) <= n THEN seq ELSE SubSeq(seq, Len(seq) - n + 1, Len(seq))

RAbs(x) == IF IsNaN(x) THEN NaN ELSE <<Abs(x[1]), x[2]>>

SeqMin(seq) == CHOOSE v \in Range(seq) : \A w \in Range(seq) : v <= w

SeqMax(seq) == CHOOSE v \in Range(seq) : \A w \in Range(seq) : v >= w

RECURSIVE SeqSum(_)
SeqSum(seq) == IF seq = <<>> THEN 0 ELSE Head(seq) + SeqSum(Tail(seq))

\* the part of calculate_metric_trend after the bucket sums are taken
trend_of(values, first_val, last_val) ==
    LET change_pct == RMul(RDiv(RSub(Num(last_val), first_val), RAbs(first_val)),
                           Num(100))
    IN  [values |-> values,
         direction |-> IF RGt(change_pct, Num(5)) THEN "up"
                       ELSE IF RLt(change_pct, Num(-5)) THEN "down"
                       ELSE "flat",
         change_pct |-> RRound(change_pct, 1),
         min |-> SeqMin(values),
         max |-> SeqMax(values),
         avg |-> RRound(Rat(SeqSum(values), Len(values)), 2)]

trend_from(values) ==
    IF Len(values) < 2
    THEN [values |-> values, direction |-> "flat", change_pct |-> Num(0)]
    ELSE trend_of(values,
                  IF values[1] # 0 THEN Num(values[1]) ELSE Rat(1, 100),
                  values[Len(values)])

\* df.sort_values(time_column).groupby(time_column)[metric_column].sum()
bucket_sums(table, time_column, metric_column) ==
    LET keys == GroupKeys(table.rows, <<time_column>>)
    IN  [i \in 1..Len(keys) |->
            SumInts(SelectRows(table.rows, LAMBDA r : r[time_column] = keys[i][1]),
                    metric_column)]

calculate_metric_trend(table, time_column, metric_column, periods) ==
    IF ~Contains(table.columns, time_column) \/ ~Contains(table.columns, metric_column)
    THEN Return([values |-> <<>>, direction |-> "flat", change_pct |-> Num(0)])
    ELSE Return(trend_from(TailN(bucket_sums(table, time_column, metric_column),
                                 periods)))

validate_olap_cube(table, required_dimensions, required_measures) ==
    LET missing_dims ==
            SelectSeq(required_dimensions, LAMBDA dim : ~Contains(table.columns, dim))
        missing_measures ==
            SelectSeq(required_measures, LAMBDA m : ~Contains(table.columns, m))
        \* the tables hold no missing values: isnull().sum() is 0
        null_counts ==
            [m \in {x \in Range(required_measures) : Contains(table.columns, x)} |-> 0]
    IN  Return([valid |-> Len(missing_dims) = 0 /\ Len(missing_measures) = 0,
                missing_dimensions |-> missing_dims,
                missing_measures |-> missing_measures,
                null_counts |-> null_counts,
                row_count |-> Len(table.rows),
                column_count |-> Len(table.columns)])

(***************************************************************************)
(* SpecOLAP: the OLAP operations over one table                            *)
(***************************************************************************)
InitOLAP ==
    /\ dfProy = NoTable
    /\ dfCal = NoTable
    /\ df \in OlapTables
    /\ call = NoCall
    /\ after = NoCall
    /\ op = "none"
    /\ result = NoResult
    /\ session_state = NoSession
    /\ history = NoHistory

\* a call of an OLAP operation on the table: `args` are the argument
\* objects as the caller passed them, `args_after` the same objects when
\* the call is over.  No operation assigns into df: each builds its result
\* with df.copy(), a boolean selection, groupby or pivot_table.
Calls(fn, args, args_after, res) ==
    /\ op = "none"
    /\ op' = fn
    /\ call' = args
    /\ after' = args_after
    /\ result' = res
    /\ UNCHANGED <<dfProy, dfCal, df, session_state, history>>

\* (dimension, value) pairs a caller slices by; 'region' is in no table
SliceArgs ==
    { <<"nombre_pais", "China">>, <<"anio", 2024>>, <<"mes", 1>>,
      <<"region", "Asia">> }

SliceOlap ==
    \E a \in SliceArgs :
        Calls("slice_olap", [dimension |-> a[1], value |-> a[2]],
              [dimension |-> a[1], value |-> a[2]],
              slice_olap(df, a[1], a[2]))

\* filter maps, as the sequence of their items
DiceFilters ==
    { <<>>,
      << <<"nombre_pais", Literal("China")>> >>,
      << <<"anio", Literal(2024)>>, <<"ganancia_neta", Callable("gt_15")>> >>,
      << <<"ganancia_neta", Callable("gt_15")>>, <<"anio", Literal(2024)>> >>,
      << <<"nombre_pais", Literal("China")>>, <<"ganancia_neta", Callable("gt_15")>>,
         <<"anio", Literal(2024)>> >>,
      << <<"mes", Callable("is_odd")>>, <<"region", Literal("Asia")>> >> }

Dice ==
    \E filters \in DiceFilters :
        Calls("dice", [filters |-> filters], [filters |-> filters],
              dice(df, filters))

Hierarchies == { <<"anio", "mes">> }

TargetLevels == {"anio", "mes", "dia"}

DrillDown ==
    \E hierarchy \in Hierarchies, target_level \in TargetLevels :
        Calls("drill_down",
              [dimension |-> "tiempo", hierarchy |-> hierarchy,
               target_level |-> target_level],
              [dimension |-> "tiempo", hierarchy |-> hierarchy,
               target_level |-> target_level],
              drill_down(df, "tiempo", hierarchy, target_level))

RollUp ==
    \E hierarchy \in Hierarchies, target_level \in TargetLevels :
        Calls("roll_up",
              [dimension |-> "tiempo", hierarchy |-> hierarchy,
               target_level |-> target_level],
              [dimension |-> "tiempo", hierarchy |-> hierarchy,
               target_level |-> target_level],
              roll_up(df, "tiempo", hierarchy, target_level))

PivotRows ==
    { Str("nombre_pais"), List(<<"nombre_pais">>), List(<<"nombre_pais", "mes">>) }

AggFuncs == {"sum", "mean", "count"}

PivotOlap ==
    \E rows \in PivotRows, aggfunc \in AggFuncs :
        \E res \in pivot_olap(df, rows, "anio", "ganancia_neta", aggfunc) :
            Calls("pivot_olap",
                  [rows |-> rows, columns |-> "anio", values |-> "ganancia_neta",
                   aggfunc |-> aggfunc],
                  [rows |-> rows_after_pivot(rows, "anio", "ganancia_neta"),
                   columns |-> "anio", values |-> "ganancia_neta",
                   aggfunc |-> aggfunc],
                  res)

TimeColumns == {"anio", "mes", "fecha"}

Periods == {1, 2, 6}

CalculateMetricTrend ==
    \E time_column \in TimeColumns, periods \in Periods :
        Calls("calculate_metric_trend",
              [time_column |-> time_column, metric_column |-> "ganancia_neta",
               periods |-> periods],
              [time_column |-> time_column, metric_column |-> "ganancia_neta",
               periods |-> periods],
              calculate_metric_trend(df, time_column, "ganancia_neta", periods))

RequiredDimensions == { <<"nombre_pais">>, <<"nombre_pais", "region">> }

RequiredMeasures == { <<"ganancia_neta">>, <<"ganancia_neta", "costo_total_real">> }

ValidateOlapCube ==
    \E required_dimensions \in RequiredDimensions,
       required_measures \in RequiredMeasures :
        Calls("validate_olap_cube",
              [required_dimensions |-> required_dimensions,
               required_measures |-> required_measures],
              [required_dimensions |-> required_dimensions,
               required_measures |-> required_measures],
              validate_olap_cube(df, required_dimensions, required_measures))

NextOLAP ==
    \/ SliceOlap
    \/ Dice
    \/ DrillDown
    \/ RollUp
    \/ PivotOlap
    \/ CalculateMetricTrend
    \/ ValidateOlapCube

SpecOLAP == InitOLAP /\ [][NextOLAP]_vars

(***************************************************************************)
(* Claims about KeyResult and the Rayleigh calibration (SpecKPI)           *)
(***************************************************************************)
\* C3: for a KeyResult with target > 0 and any current value, positive,
\* zero or negative, progress lies in [0, 100].
C3_ProgressInRange ==
    (op = "KeyResult.progress" /\ call.target > 0)
        => InRange0to100(result.value)

SizeTiers == {"small", "medium", "large", "xlarge"}

\* C9: with or without historical quality records, the mapping
\* calibrate_rayleigh_sigma returns has the labels small, medium, large,
\* xlarge and default, and the four tiers hold 40% of 90, 165, 240 and 360
\* days: 36, 66, 96 and 144.
C9_SigmaTiers ==
    op = "calibrate_rayleigh_sigma"
        => /\ SizeTiers \cup {"default"} \subseteq DOMAIN result.value
           /\ result.value.small = RMul(Num(90), Rat(4, 10))
           /\ result.value.medium = RMul(Num(165), Rat(4, 10))
           /\ result.value.large = RMul(Num(240), Rat(4, 10))
           /\ result.value.xlarge = RMul(Num(360), Rat(4, 10))

(***************************************************************************)
(* Claims about the OLAP operations (SpecOLAP)                             *)
(***************************************************************************)
\* C5: every OLAP operation leaves its arguments unchanged: when the call
\* is over, on success and on failure, the table, the filter map, the
\* hierarchy list and the rowKeys argument hold what they held before it.
C5_ArgumentsUnchanged == [][df' = df /\ after' = call']_vars

DrillOps == {"drill_down", "roll_up"}

\* the hierarchy levels up to and including the target level
LevelsUpTo(hierarchy, target_level) ==
    SubSeq(hierarchy, 1, IndexOf(hierarchy, target_level))

\* C6: a result of drill_down or roll_up is grouped by all the hierarchy
\* levels up to and including targetLevel: targetLevel is one of the
\* grouping keys, and there is one row per distinct combination of those
\* levels' values in the table.
C6_GroupedUpToTarget ==
    (op \in DrillOps /\ ~result.raised)
        => /\ Contains(result.value.group_cols, call.target_level)
           /\ result.value.group_cols = LevelsUpTo(call.hierarchy, call.target_level)
           /\ Len(result.value.rows) =
                  Cardinality({KeyOf(df.rows[i],
                                     LevelsUpTo(call.hierarchy, call.target_level)) :
                                  i \in 1..Len(df.rows)})

NoMatchingColumns ==
    { "None of the hierarchy columns found in DataFrame",
      "Target level not found in DataFrame" }

\* the call failed with one of the given messages
FailedWith(messages) == result.raised /\ result.message \in messages

\* C7: drill_down and roll_up fail with the invalid-hierarchy-level error
\* when targetLevel is not in the hierarchy, fail with the
\* no-matching-columns error when no hierarchy column is in the table, and
\* do not fail with the no-matching-columns error when targetLevel is in
\* the hierarchy and some hierarchy column is in the table.
C7_DrillErrors ==
    op \in DrillOps
        => /\ ~Contains(call.hierarchy, call.target_level)
                  => FailedWith({"Target level not in hierarchy"})
           /\ (/\ Contains(call.hierarchy, call.target_level)
               /\ ColsIn(call.hierarchy, df) = <<>>)
                  => FailedWith(NoMatchingColumns)
           /\ (/\ Contains(call.hierarchy, call.target_level)
               /\ ColsIn(call.hierarchy, df) # <<>>)
                  => ~FailedWith(NoMatchingColumns)

\* the rowKeys argument as the list of its names
RowKeys(rows) == IF rows.str THEN <<rows.name>> ELSE rows.items

\* C8: for rowKeys one name or a list of names, and rowKeys, columnKey and
\* valueKey all in the table, pivot_olap returns a cross-tabulation whose
\* row index is rowKeys alone, one row per distinct rowKeys combination,
\* one column per distinct columnKey value, each cell aggFunc of valueKey
\* over the matching rows and 0 where no row matches.
C8_PivotIndexedByRowKeys ==
    (/\ op = "pivot_olap"
     /\ \A col \in Range(RowKeys(call.rows)) \cup {call.columns, call.values} :
            Contains(df.columns, col))
        => /\ ~result.raised
           /\ result.value.index = RowKeys(call.rows)
           /\ result.value =
                  CrossTab(df, RowKeys(call.rows), call.columns, call.values,
                           call.aggfunc)

(***************************************************************************)
(* Claims about the defect density (SpecKPI)                               *)
(***************************************************************************)
\* the Quality table's defect counts add up to zero
NoDefectsFound == SumCol(dfCal, "cantidad_defectos_encontrados") = Num(0)

\* C11 as stated: whenever the defect counts of the Quality table add up to
\* 0 and the Projects table has at least one distinct project,
\* calculate_defect_density returns 0.0 with status 'healthy'.
C11_ZeroDefectsHealthy_AsStated ==
    (/\ op = "calculate_defect_density"
     /\ NoDefectsFound
     /\ NUnique(dfProy, "nombre_proyecto") >= 1)
        => /\ result.value = Num(0)
           /\ result.metadata.status = "healthy"

\* C11 amended: whenever the Quality table has at least one record, its
\* defect counts add up to 0 and the Projects table has at least one
\* distinct project, calculate_defect_density returns 0.0 with status
\* 'healthy'.
C11_ZeroDefectsHealthy ==
    (/\ op = "calculate_defect_density"
     /\ dfCal # <<>>
     /\ NoDefectsFound
     /\ NUnique(dfProy, "nombre_proyecto") >= 1)
        => /\ result.value = Num(0)
           /\ result.metadata.status = "healthy"

C11_Witness ==
    /\ op = "calculate_defect_density"
    /\ dfCal # <<>>
    /\ NoDefectsFound
    /\ NUnique(dfProy, "nombre_proyecto") >= 1
    /\ result.metadata.status = "healthy"

(***************************************************************************)
(* rayleigh_model.py: the defect discovery curve                           *)
(*                                                                         *)
(* An ndarray is the sequence of its elements.                             *)
(***************************************************************************)
\* bound on duration_days, the number of points of a curve
MaxDuration == 3

\* sigma=None
None == <<>>

\* np.linspace(0, duration_days, duration_days): duration_days points evenly
\* spaced from 0 to duration_days, both ends included
linspace(duration_days) ==
    IF duration_days = 1 THEN <<Num(0)>>
    ELSE [i \in 1..duration_days |-> Rat((i - 1) * duration_days, duration_days - 1)]

\* np.exp(y) for y <= 0.  e^y is irrational for y # 0; the model keeps in its
\* place the rational 1 / (1 - y), which like e^y is 1 at 0, positive and
\* decreasing as y falls, and 0.0 where a double underflows (y < -745)
np_exp(y) ==
    IF IsNaN(y) THEN NaN
    ELSE IF RLt(y, Num(-745)) THEN Num(0)
    ELSE RDiv(Num(1), RSub(Num(1), y))

\* one element of rayleigh_pdf; sigma ** 2 = 0 gives 0/0 at t = 0 and
\* inf * 0 elsewhere: NaN
rayleigh_pdf_at(t, sigma2) ==
    IF sigma2 = Num(0) THEN NaN
    ELSE RMul(RDiv(t, sigma2),
              np_exp(RNeg(RDiv(RMul(t, t), RMul(Num(2), sigma2)))))

rayleigh_pdf_of(time, sigma) ==
    [i \in 1..Len(time) |-> rayleigh_pdf_at(time[i], RMul(sigma, sigma))]

\* np.trapz(y, x) from the i-th interval on
RECURSIVE TrapzFrom(_, _, _)
TrapzFrom(y, x, i) ==
    IF i >= Len(x) THEN Num(0)
    ELSE RAdd(RDiv(RMul(RSub(x[i + 1], x[i]), RAdd(y[i + 1], y[i])), Num(2)),
              TrapzFrom(y, x, i + 1))

trapz(y, x) == TrapzFrom(y, x, 1)

\* the integral the curve is normalised by, taken by the sum of the samples
curve_integral_by_sum(rayleigh_pdf, time) == TrapzFrom(rayleigh_pdf, [i \in 1..Len(time) |-> Num(i)], 1)

\* integral = np.trapz(rayleigh_pdf, time)
curve_integral(rayleigh_pdf, time) == trapz(rayleigh_pdf, time)

\* defects_per_day from the density and its integral
scale_to_total(rayleigh_pdf, total_defects, integral) ==
    IF RGt(integral, Num(0))
    THEN [i \in 1..Len(rayleigh_pdf) |->
             RMul(rayleigh_pdf[i], RDiv(total_defects, integral))]
    ELSE [i \in 1..Len(rayleigh_pdf) |-> Num(0)]

RECURSIVE RSum(_)
RSum(seq) == IF seq = <<>> THEN Num(0) ELSE RAdd(Head(seq), RSum(Tail(seq)))

\* np.cumsum
cumsum(seq) == [i \in 1..Len(seq) |-> RSum(SubSeq(seq, 1, i))]

\* np.max of a non-empty array
np_max(seq) == CHOOSE v \in Range(seq) : \A w \in Range(seq) : RLe(w, v)

\* the part of generate_rayleigh_curve after defects_per_day is computed;
\* np.max raises ValueError on an array of no elements
curve_bands(time, defects_per_day, margin, confidence_level, sigma) ==
    IF time = <<>>
    THEN ValueError("zero-size array to reduction operation maximum which has no identity")
    ELSE Return([time |-> time,
                 defects_per_day |-> defects_per_day,
                 cumulative_defects |-> cumsum(defects_per_day),
                 upper_bound |-> [i \in 1..Len(time) |->
                                     RMul(defects_per_day[i], RAdd(Num(1), margin))],
                 lower_bound |-> [i \in 1..Len(time) |->
                                     PyMax(RMul(defects_per_day[i], RSub(Num(1), margin)),
                                           Num(0))],
                 confidence_level |-> confidence_level,
                 sigma |-> sigma,
                 peak_day |-> sigma,
                 peak_value |-> np_max(defects_per_day)])

curve_from_pdf(time, rayleigh_pdf, total_defects, confidence_level, sigma) ==
    curve_bands(time,
                scale_to_total(rayleigh_pdf, total_defects,
                               curve_integral(rayleigh_pdf, time)),
                IF RGe(confidence_level, Rat(95, 100)) THEN Rat(30, 100) ELSE Rat(20, 100),
                confidence_level, sigma)

curve_on(time, total_defects, confidence_level, sigma) ==
    curve_from_pdf(time, rayleigh_pdf_of(time, sigma), total_defects,
                   confidence_level, sigma)

generate_rayleigh_curve(total_defects, duration_days, sigma, confidence_level) ==
    curve_on(linspace(duration_days), total_defects, confidence_level,
             IF sigma = None THEN RMul(Num(duration_days), Rat(4, 10)) ELSE sigma)

(***************************************************************************)
(* rayleigh_model.py: QA resources, input validation, defect estimate      *)
(***************************************************************************)
\* int(x) of a float: truncation towards zero
PyInt(x) == IF x[1] >= 0 THEN x[1] \div x[2] ELSE -((-x[1]) \div x[2])

\* the multiplier recommend_qa_resources takes for the project duration
duration_mult(duration_months) ==
    IF duration_months <= 3 THEN Rat(13, 10)
    ELSE IF duration_months <= 6 THEN Num(1)
    ELSE Rat(9, 10)

\* the part of recommend_qa_resources after recommended_qa is known
qa_resources_of(predicted_defects, duration_months, recommended_qa, qa_hours) ==
    [qa_engineers |-> RCeil(recommended_qa),
     qa_hours_total |-> RRound(qa_hours, 0),
     qa_hours_per_month |-> RRound(RDiv(qa_hours, Num(duration_months)), 0),
     risk_level |-> IF RLt(predicted_defects, Num(30)) THEN "Bajo"
                    ELSE IF RLt(predicted_defects, Num(80)) THEN "Medio"
                    ELSE "Alto",
     risk_color |-> IF RLt(predicted_defects, Num(30)) THEN "green"
                    ELSE IF RLt(predicted_defects, Num(80)) THEN "yellow"
                    ELSE "red",
     recommendation |-> [qa_engineers |-> RCeil(recommended_qa),
                         duration_months |-> duration_months,
                         qa_hours |-> PyInt(qa_hours)]]

\* recommend_qa_resources without the minimum of one engineer
recommend_qa_unfloored(predicted_defects, duration_months) ==
    qa_resources_of(predicted_defects, duration_months,
        RMul(RDiv(predicted_defects, Num(50)), duration_mult(duration_months)),
        RMul(predicted_defects, Num(2)))

recommend_qa_resources(predicted_defects, duration_months) ==
    qa_resources_of(predicted_defects, duration_months,
        PyMax(RMul(RDiv(predicted_defects, Num(50)), duration_mult(duration_months)),
              Num(1)),
        RMul(predicted_defects, Num(2)))

\* the tuple (is_valid, error_message)
Validation(is_valid, error_msg) == [is_valid |-> is_valid, error_msg |-> error_msg]

\* validate_prediction_inputs with the limits themselves refused
validate_inputs_exclusive(project_size, duration_months, team_size) ==
    IF project_size <= 100
    THEN Validation(FALSE, "Tamano de proyecto debe ser al menos 100 LOC")
    ELSE IF project_size >= 10000000
    THEN Validation(FALSE, "Tamano de proyecto demasiado grande (>10M LOC)")
    ELSE IF duration_months <= 1 \/ duration_months >= 36
    THEN Validation(FALSE, "Duracion debe estar entre 1 y 36 meses")
    ELSE IF team_size <= 1 \/ team_size >= 100
    THEN Validation(FALSE, "Tamano de equipo debe estar entre 1 y 100 desarrolladores")
    ELSE Validation(TRUE, "")

validate_prediction_inputs(project_size, duration_months, team_size) ==
    IF project_size < 100
    THEN Validation(FALSE, "Tamano de proyecto debe ser al menos 100 LOC")
    ELSE IF project_size > 10000000
    THEN Validation(FALSE, "Tamano de proyecto demasiado grande (>10M LOC)")
    ELSE IF duration_months < 1 \/ duration_months > 36
    THEN Validation(FALSE, "Duracion debe estar entre 1 y 36 meses")
    ELSE IF team_size < 1 \/ team_size > 100
    THEN Validation(FALSE, "Tamano de equipo debe estar entre 1 y 100 desarrolladores")
    ELSE Validation(TRUE, "")

\* experience_multiplier.get(experience_level, 1.0)
experience_multiplier(experience_level) ==
    CASE experience_level = "Junior" -> Rat(15, 10)
      [] experience_level = "Mid"    -> Num(1)
      [] experience_level = "Senior" -> Rat(6, 10)
      [] OTHER -> Num(1)

\* complexity_multiplier.get(technology_complexity, 1.0)
complexity_multiplier(technology_complexity) ==
    CASE technology_complexity = "Baja"     -> Rat(7, 10)
      [] technology_complexity = "Media"    -> Num(1)
      [] technology_complexity = "Alta"     -> Rat(14, 10)
      [] technology_complexity = "Muy Alta" -> Rat(18, 10)
      [] OTHER -> Num(1)

base_defect_density == 20

\* estimate_base_defects with the team-size term applied to every team size
estimate_defects_any_team(project_size, team_size, experience_level, technology_complexity) ==
    PyMax(RMul(RMul(RMul(RMul(Rat(project_size, 1000), Num(base_defect_density)),
                         experience_multiplier(experience_level)),
                    complexity_multiplier(technology_complexity)),
               RAdd(Num(1), RMul(Rat(5, 100), Num(team_size - 5)))),
          Num(1))

estimate_base_defects(project_size, team_size, experience_level, technology_complexity) ==
    PyMax(RMul(RMul(RMul(RMul(Rat(project_size, 1000), Num(base_defect_density)),
                         experience_multiplier(experience_level)),
                    complexity_multiplier(technology_complexity)),
               IF team_size > 5
               THEN RAdd(Num(1), RMul(Rat(5, 100), Num(team_size - 5)))
               ELSE Num(1)),
          Num(1))

\* the part of predict_defects_rayleigh after the estimate: sigma, the
\* severity shares and the rounded report
prediction_of(total_defects, duration_days, sigma, project_params) ==
    [total_defects |-> RRound(total_defects, 1),
     peak_day |-> RRound(sigma, 1),
     peak_defects_per_day |-> RRound(RMul(total_defects, Rat(15, 1000)), 2),
     sigma |-> sigma,
     duration_days |-> duration_days,
     severity_distribution |->
         [Critica |-> RRound(RMul(total_defects, Rat(10, 100)), 1),
          Alta    |-> RRound(RMul(total_defects, Rat(25, 100)), 1),
          Media   |-> RRound(RMul(total_defects, Rat(40, 100)), 1),
          Baja    |-> RRound(RMul(total_defects, Rat(25, 100)), 1)],
     project_params |-> project_params]

predict_defects_rayleigh(project_size, duration_months, team_size, experience_level, technology_complexity, sigma) ==
    prediction_of(
        estimate_base_defects(project_size, team_size, experience_level,
                              technology_complexity),
        duration_months * 30,
        IF sigma = None THEN RMul(Num(duration_months * 30), Rat(4, 10)) ELSE sigma,
        [size |-> project_size, duration_months |-> duration_months,
         team_size |-> team_size, experience |-> experience_level,
         complexity |-> technology_complexity])

(***************************************************************************)
(* SpecRayleigh: the prediction functions on given parameters              *)
(***************************************************************************)
InitRayleigh ==
    /\ dfProy = NoTable
    /\ dfCal = NoTable
    /\ df = NoTable
    /\ call = NoCall
    /\ after = NoCall
    /\ op = "none"
    /\ result = NoResult
    /\ session_state = NoSession
    /\ history = NoHistory

TotalDefects == {Num(-10), Num(0), Num(10), Rat(245, 2)}

Sigmas == {None, Num(0), Num(1), Num(2), Num(-1), Rat(1, 20)}

ConfidenceLevels == {Rat(80, 100), Rat(95, 100), Rat(99, 100)}

GenerateRayleighCurve ==
    \E total_defects \in TotalDefects, duration_days \in 0..MaxDuration,
       sigma \in Sigmas, confidence_level \in ConfidenceLevels :
        Returns("generate_rayleigh_curve",
                [total_defects |-> total_defects, duration_days |-> duration_days,
                 sigma |-> sigma, confidence_level |-> confidence_level],
                generate_rayleigh_curve(total_defects, duration_days, sigma,
                                        confidence_level))

\* the defect counts a recommendation is asked for
PredictedDefects ==
    {Num(0), Num(1), Rat(299, 10), Num(30), Num(50), Rat(799, 10), Num(80),
     Num(100), Num(120), Rat(2455, 10)}

DurationMonths == {1, 3, 4, 6, 7, 12, 36}

RecommendQaResources ==
    \E predicted_defects \in PredictedDefects, duration_months \in DurationMonths :
        Returns("recommend_qa_resources",
                [predicted_defects |-> predicted_defects,
                 duration_months |-> duration_months],
                Return(recommend_qa_resources(predicted_defects, duration_months)))

\* sizes, durations and team sizes on both sides of the validation limits
ProjectSizes == {50, 99, 100, 500, 50000, 10000000, 10000001}

ValidatedMonths == {0, 1, 6, 36, 37}

TeamSizes == {0, 1, 5, 6, 8, 100, 101}

ExperienceLevels == {"Junior", "Mid", "Senior"}

ComplexityLevels == {"Baja", "Media", "Alta", "Muy Alta"}

ValidatePredictionInputs ==
    \E project_size \in ProjectSizes, duration_months \in ValidatedMonths,
       team_size \in TeamSizes :
        Returns("validate_prediction_inputs",
                [project_size |-> project_size, duration_months |-> duration_months,
                 team_size |-> team_size],
                Return(validate_prediction_inputs(project_size, duration_months,
                                                  team_size)))

\* the sizes and team sizes an estimate is asked for
EstimatedSizes == {0, 100, 500, 1000, 50000}

EstimatedTeams == {1, 4, 5, 6, 8, 30}

EstimateBaseDefects ==
    \E project_size \in EstimatedSizes, team_size \in EstimatedTeams,
       experience_level \in ExperienceLevels,
       technology_complexity \in ComplexityLevels :
        Returns("estimate_base_defects",
                [project_size |-> project_size, team_size |-> team_size,
                 experience_level |-> experience_level,
                 technology_complexity |-> technology_complexity],
                Return(estimate_base_defects(project_size, team_size,
                                             experience_level, technology_complexity)))

PredictDefectsRayleigh ==
    \E project_size \in EstimatedSizes \ {0}, duration_months \in {1, 6},
       team_size \in {5, 8}, experience_level \in ExperienceLevels,
       technology_complexity \in ComplexityLevels, sigma \in {None, Num(60)} :
        Returns("predict_defects_rayleigh",
                [project_size |-> project_size, duration_months |-> duration_months,
                 team_size |-> team_size, experience_level |-> experience_level,
                 technology_complexity |-> technology_complexity, sigma |-> sigma],
                Return(predict_defects_rayleigh(project_size, duration_months,
                           team_size, experience_level, technology_complexity, sigma)))

NextRayleigh ==
    \/ GenerateRayleighCurve
    \/ RecommendQaResources
    \/ ValidatePredictionInputs
    \/ EstimateBaseDefects
    \/ PredictDefectsRayleigh

SpecRayleigh == InitRayleigh /\ [][NextRayleigh]_vars

(***************************************************************************)
(* Claims about the defect discovery curve (SpecRayleigh)                  *)
(***************************************************************************)
CurveReturned == op = "generate_rayleigh_curve" /\ ~result.raised

\* C12: a returned curve is evaluated at exactly the integer day offsets
\* 0, 1, ..., durationDays-1: it has durationDays points and the i-th time
\* value is i.
C12_IntegerDayOffsets ==
    CurveReturned
        => /\ Len(result.value.time) = call.duration_days
           /\ \A i \in 1..Len(result.value.time) : result.value.time[i] = Num(i - 1)

\* the un-normalised integral of the density over the returned time points
UnnormalizedIntegral ==
    trapz(rayleigh_pdf_of(result.value.time, result.value.sigma), result.value.time)

\* a returned curve of at least two points and sigma > 0
CurveOfTwoPoints ==
    /\ CurveReturned
    /\ Len(result.value.time) >= 2
    /\ RGt(result.value.sigma, Num(0))

\* C13: for a curve of at least two points and sigma > 0, the trapezoidal
\* integral of defects_per_day over the time points equals totalDefects when
\* the un-normalised integral of the density is positive, and defects_per_day
\* is all zeros when that integral is <= 0.
C13_CurveIntegratesToTotal ==
    CurveOfTwoPoints
        => IF RGt(UnnormalizedIntegral, Num(0))
           THEN trapz(result.value.defects_per_day, result.value.time)
                    = call.total_defects
           ELSE \A i \in 1..Len(result.value.time) :
                    result.value.defects_per_day[i] = Num(0)

C13_Witness ==
    /\ CurveOfTwoPoints
    /\ RGt(UnnormalizedIntegral, Num(0))
    /\ call.total_defects = Rat(245, 2)
    /\ Len(result.value.time) = 3
    /\ trapz(result.value.defects_per_day, result.value.time) = Rat(245, 2)

\* the margin of the confidence band
MarginOf(confidence_level) ==
    IF RGe(confidence_level, Rat(95, 100)) THEN Rat(30, 100) ELSE Rat(20, 100)

\* C14: at every point of a returned curve, whatever totalDefects,
\* durationDays, sigma and confidenceLevel, lower_bound <= defects_per_day
\* <= upper_bound, the bounds being defects_per_day less and plus the margin
\* (30% if confidenceLevel >= 0.95, else 20%) and the lower bound never
\* below 0.
C14_BandContainsCurve ==
    CurveReturned
        => \A i \in 1..Len(result.value.time) :
               /\ RLe(result.value.lower_bound[i], result.value.defects_per_day[i])
               /\ RLe(result.value.defects_per_day[i], result.value.upper_bound[i])
               /\ RGe(result.value.lower_bound[i], Num(0))
               /\ result.value.upper_bound[i] =
                      RMul(result.value.defects_per_day[i],
                           RAdd(Num(1), MarginOf(call.confidence_level)))

(***************************************************************************)
(* SpecOKR: the scorecard functions on a given list of OKRs                *)
(***************************************************************************)
\* bound on the number of OKRs of a list
MaxOkrs == 3

\* the OKRs a list is made of: objectives and key results the generators
\* write, with current values on both sides of their targets, a key result
\* of target 0, negative current values, an OKR without key results and one
\* whose progress is 89.96
SampleOkrs ==
    { OKR("Aumentar Ingresos por Proyectos de Software",
          << KeyResult("Generar $50M en ganancia neta", Num(100), Num(50), "$"),
             KeyResult("Mantener margen de beneficio >35%", Num(35), Num(70), "%") >>,
          "CFO", "Q1 2025", "Financial"),
      OKR("Optimizar Costos Operativos",
          << KeyResult("Mantener proyectos sin sobrecosto en 90%", Num(90), Num(85), "%") >>,
          "CFO", "Q1 2025", "Financial"),
      OKR("Expandir Base de Clientes y Fidelizacion", <<>>,
          "CCO", "Q1 2025", "Customer"),
      OKR("Mejorar Satisfaccion y Valor para el Cliente",
          << KeyResult("Alcanzar NPS de 75+", Num(75), Num(75), " puntos") >>,
          "CCO", "Q1 2025", "Customer"),
      OKR("Optimizar Eficiencia de Entrega",
          << KeyResult("Lograr 90% de proyectos completados exitosamente",
                       Num(0), Num(-5), "%"),
             KeyResult("Reducir tiempo promedio de entrega a 4 meses",
                       Num(4), Num(-2), " meses") >>,
          "CTO", "Q1 2025", "Internal Processes"),
      OKR("Fortalecer Cultura de Innovacion",
          << KeyResult("Generar 20 propuestas de mejora interna",
                       Num(2500), Num(2249), " propuestas") >>,
          "CHRO", "Q1 2025", "Learning & Growth") }

InitOKR ==
    /\ dfProy = NoTable
    /\ dfCal = NoTable
    /\ df = NoTable
    /\ call = NoCall
    /\ after = NoCall
    /\ op = "none"
    /\ result = NoResult
    /\ session_state = NoSession
    /\ history = NoHistory

CreateOkrHierarchy ==
    \E okrs \in SeqsUpTo(SampleOkrs, MaxOkrs) :
        Returns("create_okr_hierarchy", [okrs |-> okrs],
                Return(create_okr_hierarchy(okrs)))

\* the sunburst tab: the hierarchy and its flattening
SunburstOf(okrs, hierarchy) ==
    Returns("sunburst", [okrs |-> okrs],
            Return([hierarchy |-> hierarchy, entries |-> flatten_hierarchy(hierarchy)]))

Sunburst ==
    \E okrs \in SeqsUpTo(SampleOkrs, MaxOkrs) :
        SunburstOf(okrs, create_okr_hierarchy(okrs))

\* the perspectives the scorecard overview asks the score of
Perspectives == {"Financial", "Customer", "Internal Processes", "Learning & Growth"}

CalculatePerspectiveScore ==
    \E okrs \in SeqsUpTo(SampleOkrs, MaxOkrs), perspective \in Perspectives :
        Returns("calculate_perspective_score",
                [okrs |-> okrs, perspective |-> perspective],
                calculate_perspective_score(okrs, perspective))

NextOKR ==
    \/ CreateOkrHierarchy
    \/ Sunburst
    \/ CalculatePerspectiveScore

SpecOKR == InitOKR /\ [][NextOKR]_vars

(***************************************************************************)
(* Claims about the OKR hierarchy (SpecOKR)                                *)
(***************************************************************************)
\* the OKRs of the call that have the given perspective, in the list's order
OkrsOf(perspective) == SelectSeq(call.okrs, LAMBDA okr : okr.perspective = perspective)

\* an objective node carries its OKR's overall progress, and its leaves its
\* key results' progress
ObjectiveNodeOf(node, okr) ==
    /\ node.value = OKR_overall_progress(okr)
    /\ Len(node.children) = Len(okr.key_results)
    /\ \A k \in 1..Len(okr.key_results) :
           node.children[k].value = KeyResult_progress(okr.key_results[k])

\* the hierarchy has one perspective node per perspective of the list, and
\* under it one objective node per OKR of that perspective
NodesCarryProgress(hierarchy) ==
    /\ {hierarchy.children[i].name : i \in 1..Len(hierarchy.children)}
           = {call.okrs[i].perspective : i \in 1..Len(call.okrs)}
    /\ \A i \in 1..Len(hierarchy.children) :
           /\ Len(hierarchy.children[i].children)
                  = Len(OkrsOf(hierarchy.children[i].name))
           /\ \A j \in 1..Len(hierarchy.children[i].children) :
                  ObjectiveNodeOf(hierarchy.children[i].children[j],
                                  OkrsOf(hierarchy.children[i].name)[j])

\* the mean of the values of a perspective node's objective nodes
MeanOfValues(nodes) ==
    RDiv(RSum([j \in 1..Len(nodes) |-> nodes[j].value]), Num(Len(nodes)))

\* C15 as stated: in the hierarchy create_okr_hierarchy builds, every
\* objective node carries its overall progress, every key-result leaf its
\* progress, and every perspective node a value equal to the mean of the
\* values of its objective nodes.
C15_HierarchyValues_AsStated ==
    op = "create_okr_hierarchy"
        => /\ NodesCarryProgress(result.value)
           /\ \A i \in 1..Len(result.value.children) :
                  /\ "value" \in DOMAIN result.value.children[i]
                  /\ result.value.children[i].value
                         = MeanOfValues(result.value.children[i].children)

\* the sunburst entries of the perspective nodes, in order
PerspectiveEntries ==
    SelectSeq(result.value.entries,
              LAMBDA e : e.parent = result.value.hierarchy.name)

\* C15 amended: in the hierarchy create_okr_hierarchy builds, every
\* objective node carries its overall progress and every key-result leaf
\* its progress; a perspective node carries its name and children only, and
\* the value the dashboard's flattening gives it in the sunburst is the mean
\* of the values of its objective nodes.
C15_HierarchyValues ==
    op = "sunburst"
        => /\ NodesCarryProgress(result.value.hierarchy)
           /\ Len(PerspectiveEntries) = Len(result.value.hierarchy.children)
           /\ \A i \in 1..Len(PerspectiveEntries) :
                  /\ DOMAIN result.value.hierarchy.children[i] = {"name", "children"}
                  /\ PerspectiveEntries[i].label = result.value.hierarchy.children[i].name
                  /\ PerspectiveEntries[i].value
                         = MeanOfValues(result.value.hierarchy.children[i].children)

C15_Witness ==
    /\ op = "sunburst"
    /\ \E i \in 1..Len(result.value.hierarchy.children) :
           /\ Len(result.value.hierarchy.children[i].children) = 2
           /\ result.value.hierarchy.children[i].children[1].value
                  # result.value.hierarchy.children[i].children[2].value
           /\ Len(result.value.hierarchy.children[i].children[1].children) = 2
           /\ PerspectiveEntries[i].value
                  = MeanOfValues(result.value.hierarchy.children[i].children)

(***************************************************************************)
(* Claims about slice, dice, drill and trend (SpecOLAP)                    *)
(***************************************************************************)

\* s occurs in t as a subsequence: its elements in t's order
RECURSIVE IsSubsequence(_, _)
IsSubsequence(s, t) ==
    IF s = <<>> THEN TRUE
    ELSE IF t = <<>> THEN FALSE
    ELSE IF Head(s) = Head(t) THEN IsSubsequence(Tail(s), Tail(t))
    ELSE IsSubsequence(s, Tail(t))

\* the positions of the table's rows whose sliced dimension equals the value
MatchingPositions ==
    {i \in 1..Len(df.rows) : df.rows[i][call.dimension] = call.value}

\* the positions of the table's rows whose sliced dimension differs from it
DifferingPositions ==
    {i \in 1..Len(df.rows) : df.rows[i][call.dimension] # call.value}

\* C16: slice_olap(T, D, v) holds exactly the rows of T whose D equals v, in
\* T's order, so its size plus the number of rows whose D differs from v is
\* the size of T; when D is not a column of T it fails with the
\* unknown-dimension error.
C16_SliceExactRows ==
    op = "slice_olap" =>
        IF Contains(df.columns, call.dimension)
        THEN /\ ~result.raised
             /\ result.value.columns = df.columns
             /\ \A i \in 1..Len(result.value.rows) :
                    result.value.rows[i][call.dimension] = call.value
             /\ IsSubsequence(result.value.rows, df.rows)
             /\ Len(result.value.rows) = Cardinality(MatchingPositions)
             /\ Len(result.value.rows) + Cardinality(DifferingPositions)
                    = Len(df.rows)
        ELSE /\ result.raised
             /\ result.error = "ValueError"
             /\ result.message = "Dimension not found in DataFrame"

\* a slice that keeps the second row of two and drops the first
C16_Witness ==
    /\ op = "slice_olap"
    /\ ~result.raised
    /\ Len(df.rows) = 2
    /\ result.value.rows = <<df.rows[2]>>
    /\ df.rows[1][call.dimension] # call.value

\* the row satisfies the i-th filter: equality for a literal, the predicate's
\* result for a predicate
Satisfies(r, filter) ==
    IF filter[2].callable THEN ApplyCallable(filter[2].name, r[filter[1]])
    ELSE r[filter[1]] = filter[2].value

\* the filter lists with the same items as the call's, in any order
Reorderings ==
    {g \in DiceFilters : Len(g) = Len(call.filters) /\ Range(g) = Range(call.filters)}

\* C17: when every key of the filter map is a column of T, dice returns
\* exactly the rows of T that satisfy every filter, in T's order, whatever the
\* order of the filters; with no filter it returns T row for row.
C17_DiceExactRows ==
    (op = "dice" /\ \A i \in 1..Len(call.filters) :
                        Contains(df.columns, call.filters[i][1])) =>
        /\ ~result.raised
        /\ result.value.rows
              = SelectSeq(df.rows,
                    LAMBDA r : \A i \in 1..Len(call.filters) :
                                   Satisfies(r, call.filters[i]))
        /\ \A g \in Reorderings : dice(df, g) = result
        /\ call.filters = <<>> => result.value = df

\* the numeric columns of the table that was grouped
NumericColumns == Range(df.columns) \cap NumericCols

ErrorKind(res) ==
    IF res.message \in NoMatchingColumns THEN "NoMatchingColumns"
    ELSE "InvalidHierarchyLevel"

\* both calls fail with the same kind of error, or both return the same table
SameOutcome(down, up) ==
    IF down.raised \/ up.raised
    THEN /\ down.raised
         /\ up.raised
         /\ down.error = up.error
         /\ ErrorKind(down) = ErrorKind(up)
    ELSE down.value = up.value

DirectionOf(change_pct) ==
    IF RGt(change_pct, Num(5)) THEN "up"
    ELSE IF RLt(change_pct, Num(-5)) THEN "down"
    ELSE "flat"

\* C20: a trend computed from at least two buckets has the direction its
\* returned percent change gives ('up' exactly above 5, 'down' exactly below
\* -5, 'flat' otherwise); with a missing column or fewer than two buckets the
\* direction is 'flat' and the percent change 0.
C20_DirectionMatchesChange ==
    op = "calculate_metric_trend" =>
        /\ ~result.raised
        /\ IF /\ Contains(df.columns, call.time_column)
              /\ Contains(df.columns, call.metric_column)
              /\ Len(result.value.values) >= 2
           THEN result.value.direction = DirectionOf(result.value.change_pct)
           ELSE /\ result.value.direction = "flat"
                /\ result.value.change_pct = Num(0)

(***************************************************************************)
(* Claims about the generated OKRs (SpecKPI)                               *)
(***************************************************************************)

\* the perspective each of the four generators is written for
PerspectiveOfGenerator(fn) ==
    CASE fn = "generate_financial_okrs" -> "Financial"
      [] fn = "generate_customer_okrs"  -> "Customer"
      [] fn = "generate_internal_okrs"  -> "Internal Processes"
      [] fn = "generate_learning_okrs"  -> "Learning & Growth"

PerspectiveGenerators ==
    {"generate_financial_okrs", "generate_customer_okrs", "generate_internal_okrs",
     "generate_learning_okrs"}

\* the tables the generator reads hold at least one row each
GeneratorInputsNonEmpty ==
    /\ dfProy # <<>>
    /\ op \in {"generate_internal_okrs", "generate_okrs_from_data"} => dfCal # <<>>

\* C21: on non-empty Projects/Quality input each perspective generator returns
\* exactly two objectives of its own perspective with 2 or 3 key results each,
\* and generate_okrs_from_data returns the eight objectives in the order
\* Financial, Customer, Internal Processes, Learning & Growth (two of each),
\* all of them carrying the requested quarter.
C21_GeneratedOkrsShape ==
    /\ (op \in PerspectiveGenerators /\ GeneratorInputsNonEmpty) =>
           /\ ~result.raised
           /\ Len(result.value) = 2
           /\ \A i \in 1..Len(result.value) :
                  /\ result.value[i].perspective = PerspectiveOfGenerator(op)
                  /\ Len(result.value[i].key_results) \in {2, 3}
                  /\ result.value[i].quarter = call.quarter
    /\ (op = "generate_okrs_from_data" /\ GeneratorInputsNonEmpty) =>
           /\ ~result.raised
           /\ [i \in 1..Len(result.value) |-> result.value[i].perspective]
                  = << "Financial", "Financial", "Customer", "Customer",
                       "Internal Processes", "Internal Processes",
                       "Learning & Growth", "Learning & Growth" >>
           /\ \A i \in 1..Len(result.value) :
                  /\ Len(result.value[i].key_results) \in {2, 3}
                  /\ result.value[i].quarter = call.quarter

\* all OKRs generated for the second quarter from two projects and a
\* quality record
C21_Witness ==
    /\ op = "generate_okrs_from_data"
    /\ Len(dfProy) = 2
    /\ Len(dfCal) = 1
    /\ call.quarter = "Q2 2025"
    /\ ~result.raised
    /\ Len(result.value) = 8
    /\ result.value[8].quarter = "Q2 2025"

(***************************************************************************)
(* Claims about the perspective score (SpecOKR)                            *)
(***************************************************************************)

\* the positions in the list of the objectives tagged with the perspective
TaggedPositions ==
    {i \in 1..Len(call.okrs) : call.okrs[i].perspective = call.perspective}

\* the objectives tagged with the perspective, in the list's order
TaggedOkrs ==
    SelectSeq(call.okrs, LAMBDA okr : okr.perspective = call.perspective)

\* the number of key results of the objectives at the positions
RECURSIVE KeyResultsAt(_)
KeyResultsAt(positions) ==
    IF positions = {} THEN 0
    ELSE LET i == CHOOSE j \in positions : TRUE
         IN  Len(call.okrs[i].key_results) + KeyResultsAt(positions \ {i})

\* C22: calculate_perspective_score considers exactly the objectives tagged
\* with the perspective: with none, score 0.0, status 'No OKRs' and zero
\* counts; otherwise okr_count is their number, kr_count the total of their
\* key results, objectives their statements in list order, and the objectives
\* of other perspectives do not influence the result.
C22_ScoreOfTaggedObjectives ==
    op = "calculate_perspective_score" =>
        /\ ~result.raised
        /\ IF TaggedPositions = {}
           THEN /\ result.value = Num(0)
                /\ result.metadata.status = "No OKRs"
                /\ result.metadata.okr_count = 0
                /\ result.metadata.kr_count = 0
           ELSE /\ result.metadata.okr_count = Cardinality(TaggedPositions)
                /\ result.metadata.kr_count = KeyResultsAt(TaggedPositions)
                /\ result.metadata.objectives
                       = [i \in 1..Len(TaggedOkrs) |-> TaggedOkrs[i].objective]
                /\ result = calculate_perspective_score(TaggedOkrs, call.perspective)

\* a score over two objectives of the perspective with one of another
\* perspective between them
C22_Witness ==
    /\ op = "calculate_perspective_score"
    /\ Len(call.okrs) = 3
    /\ TaggedPositions = {1, 3}
    /\ result.metadata.okr_count = 2
    /\ result.metadata.kr_count = 3
    /\ Len(call.okrs[2].key_results) > 0

\* C30: for a perspective with at least one tagged objective the returned
\* status is 'On Track' exactly when the returned score is at least 90,
\* 'At Risk' exactly when it is at least 70 and below 90, and 'Off Track'
\* exactly when it is below 70.
C30_StatusMatchesScore ==
    (op = "calculate_perspective_score" /\ TaggedPositions # {}) =>
        /\ result.metadata.status = "On Track" <=> RGe(result.value, Num(90))
        /\ result.metadata.status = "At Risk"
               <=> (RGe(result.value, Num(70)) /\ RLt(result.value, Num(90)))
        /\ result.metadata.status = "Off Track" <=> RLt(result.value, Num(70))

(***************************************************************************)
(* Claims about the prediction helpers (SpecRayleigh)                      *)
(***************************************************************************)

\* the effort the claim takes the ceiling of: max((predicted/50) x m, 1)
QaEffort ==
    LET m == CASE call.duration_months <= 3 -> Rat(13, 10)
               [] call.duration_months \in 4..6 -> Num(1)
               [] OTHER -> Rat(9, 10)
        effort == RMul(RDiv(call.predicted_defects, Num(50)), m)
    IN  IF RLt(effort, Num(1)) THEN Num(1) ELSE effort

\* C23: for predicted_defects >= 0 and duration_months >= 1,
\* recommend_qa_resources returns qa_engineers = ceil(max((predicted/50) x m, 1))
\* with m = 1.3 up to 3 months, 1.0 up to 6, else 0.9, hence at least 1, and
\* the risk level Bajo/green below 30 defects, Medio/yellow below 80, else
\* Alto/red; (120, 6) gives 3 engineers and 'Alto'.
C23_QaRecommendation ==
    (/\ op = "recommend_qa_resources"
     /\ RGe(call.predicted_defects, Num(0))
     /\ call.duration_months >= 1) =>
        /\ ~result.raised
        /\ result.value.qa_engineers >= 1
        /\ RLe(QaEffort, Num(result.value.qa_engineers))
        /\ RLt(Num(result.value.qa_engineers - 1), QaEffort)
        /\ <<result.value.risk_level, result.value.risk_color>>
               = IF RLt(call.predicted_defects, Num(30)) THEN <<"Bajo", "green">>
                 ELSE IF RLt(call.predicted_defects, Num(80)) THEN <<"Medio", "yellow">>
                 ELSE <<"Alto", "red">>
        /\ (call.predicted_defects = Num(120) /\ call.duration_months = 6) =>
               (result.value.qa_engineers = 3 /\ result.value.risk_level = "Alto")

\* the recommendation for 120 defects over 6 months
C23_Witness ==
    /\ op = "recommend_qa_resources"
    /\ call.predicted_defects = Num(120)
    /\ call.duration_months = 6
    /\ result.value.qa_engineers = 3
    /\ result.value.risk_level = "Alto"

\* C24: on integer inputs validate_prediction_inputs never raises and returns
\* (True, "") exactly when 100 <= size <= 10,000,000, 1 <= duration_months <= 36
\* and 1 <= team_size <= 100; otherwise False with a non-empty message.
C24_ValidationVerdict ==
    op = "validate_prediction_inputs" =>
        /\ ~result.raised
        /\ IF /\ call.project_size \in 100..10000000
              /\ call.duration_months \in 1..36
              /\ call.team_size \in 1..100
           THEN result.value.is_valid /\ result.value.error_msg = ""
           ELSE ~result.value.is_valid /\ result.value.error_msg # ""

\* inputs on the limits are accepted
C24_Witness ==
    /\ op = "validate_prediction_inputs"
    /\ call.project_size = 10000000
    /\ call.duration_months = 36
    /\ call.team_size = 1
    /\ result.value.is_valid

\* the factors the claim gives for the experience and complexity tiers
ExperienceFactor ==
    [Junior |-> Rat(15, 10), Mid |-> Num(1), Senior |-> Rat(6, 10)]

ComplexityFactor ==
    ("Baja" :> Rat(7, 10)) @@ ("Media" :> Num(1)) @@ ("Alta" :> Rat(14, 10))
        @@ ("Muy Alta" :> Rat(18, 10))

\* (size/1000) x 20 x e x c x t of the call
RawEstimate ==
    LET t == IF call.team_size > 5
             THEN Rat(100 + 5 * (call.team_size - 5), 100)
             ELSE Num(1)
    IN  RMul(Rat(call.project_size * 20, 1000),
             RMul(ExperienceFactor[call.experience_level],
                  RMul(ComplexityFactor[call.technology_complexity], t)))

\* C25: estimate_base_defects returns max(1.0, (size/1000) x 20 x e x c x t)
\* with the tier factors e and c and t = 1 + 0.05 x (team_size - 5) above a
\* team of 5 and 1 otherwise; it is never below 1.0 and does not decrease
\* when the team grows.
C25_BaseDefectEstimate ==
    op = "estimate_base_defects" =>
        /\ ~result.raised
        /\ result.value = IF RLt(RawEstimate, Num(1)) THEN Num(1) ELSE RawEstimate
        /\ RGe(result.value, Num(1))
        /\ \A larger \in {t \in EstimatedTeams : t > call.team_size} :
               RLe(result.value,
                   estimate_base_defects(call.project_size, larger,
                       call.experience_level, call.technology_complexity))

\* an estimate above the floor for a team below five, and one on the floor
C25_Witness ==
    /\ op = "estimate_base_defects"
    /\ call.team_size = 4
    /\ call.project_size = 1000
    /\ call.experience_level = "Junior"
    /\ call.technology_complexity = "Alta"
    /\ result.value = Num(42)

\* C29: the four reported severity_distribution values of
\* predict_defects_rayleigh sum exactly to the reported total_defects.
C29_SeveritySumsToTotal ==
    op = "predict_defects_rayleigh" =>
        RAdd(RAdd(result.value.severity_distribution.Critica,
                  result.value.severity_distribution.Alta),
             RAdd(result.value.severity_distribution.Media,
                  result.value.severity_distribution.Baja))
            = result.value.total_defects

(***************************************************************************)
(* app.py: the dashboard session (authentication, navigation, RBAC)        *)
(***************************************************************************)
\* st.secrets["passwords"]
Secrets == [admin |-> "admin123", pm |-> "pm123", invitado |-> "guest"]

\* the options of the navigation radio, the first one being its default
Sections ==
    << "KPIs - Indicadores Operacionales", "OKRs - Balanced Scorecard",
       "Prediccion de Defectos (Rayleigh)" >>

Rayleigh == Sections[3]

\* key in st.session_state
Has(state, key) == key \in DOMAIN state

\* st.session_state[key] = value
Set(state, key, value) ==
    [k \in DOMAIN state \cup {key} |-> IF k = key THEN value ELSE state[k]]

\* del st.session_state[key]; also the removal of the state of a widget that
\* a script run did not render
Del(state, key) == [k \in DOMAIN state \ {key} |-> state[k]]

\* the on_change callback of the password input
password_entered(state) ==
    IF state.username \in DOMAIN Secrets /\ state.password = Secrets[state.username]
    THEN Set(Set(state, "authentication_status", "True"),
             "current_user", state.username)
    ELSE Set(state, "authentication_status", "False")

\* what a script run put on the page
Page(form, error, sidebar, section, denied) ==
    [form |-> form, error |-> error, sidebar |-> sidebar, section |-> section,
     denied |-> denied]

\* the login form of check_password: the two inputs register their keys
login_form(state) ==
    [session_state |->
         Set(Set(state, "username", IF Has(state, "username") THEN state.username ELSE ""),
             "password", IF Has(state, "password") THEN state.password ELSE ""),
     page |-> Page(TRUE, state.authentication_status = "False", FALSE, "none", FALSE)]

\* if "username" not in st.session_state and "current_user" in st.session_state
restore_username(state) ==
    IF ~Has(state, "username") /\ Has(state, "current_user")
    THEN Set(state, "username", state.current_user)
    ELSE state

\* st.session_state.get("username")
username_of(state) == IF Has(state, "username") THEN state.username ELSE "None"

\* the end of a run that did not render the login form: the state of the
\* inputs of a form rendered by the run before is dropped
drop_widgets(state, form_was_rendered) ==
    IF form_was_rendered THEN Del(Del(state, "username"), "password") ELSE state

\* the sidebar, the chosen section and the RBAC check of the Rayleigh section
dashboard(state, section, form_was_rendered) ==
    [session_state |-> drop_widgets(state, form_was_rendered),
     page |-> Page(FALSE, FALSE, TRUE, section,
                   section = Rayleigh /\ username_of(state) \notin {"admin", "pm"})]

\* the logout button leaving the authentication status as it is
logout_keeping_status(state) == Del(state, "current_user")

\* the logout button: the status is cleared, current_user deleted
logout(state) ==
    Del(Set(state, "authentication_status", "None"), "current_user")

\* one run of the script from the top, the data files being present
script_run(state, section, form_was_rendered) ==
    IF ~Has(state, "authentication_status")
    THEN login_form(Set(state, "authentication_status", "None"))
    ELSE IF state.authentication_status # "True"
    THEN login_form(state)
    ELSE dashboard(restore_username(state), section, form_was_rendered)

(***************************************************************************)
(* SpecSession: a browser session of the dashboard                         *)
(***************************************************************************)
\* the session after the first run of the script
InitSession ==
    /\ dfProy = NoTable
    /\ dfCal = NoTable
    /\ df = NoTable
    /\ call = NoCall
    /\ after = NoCall
    /\ op = "none"
    /\ result = Return(script_run(<<>>, Sections[1], FALSE).page)
    /\ session_state = script_run(<<>>, Sections[1], FALSE).session_state
    /\ history = NoHistory

\* an interaction: the session state it leaves and the run that follows
Interaction(fn, args, state, section, check) ==
    /\ op' = fn
    /\ call' = args
    /\ after' = args
    /\ session_state' = script_run(state, section, result.value.form).session_state
    /\ result' = Return(script_run(state, section, result.value.form).page)
    /\ history' = IF check = "passed"
                  THEN [last_check |-> "passed", last_passed |-> state.current_user]
                  ELSE IF check = "same" THEN history
                  ELSE [last_check |-> check, last_passed |-> history.last_passed]
    /\ UNCHANGED <<dfProy, dfCal, df>>

Usernames == {"", "admin", "pm", "invitado", "mallory"}

Passwords == {"", "admin123", "pm123", "guest"}

\* the user edits the username input: a rerun, no callback
EnterUsername ==
    \E username \in Usernames :
        /\ result.value.form
        /\ username # session_state.username
        /\ Interaction("enter_username", [username |-> username],
                       Set(session_state, "username", username), Sections[1], "same")

\* the outcome of a password check that left the state
CheckOf(state) ==
    IF state.authentication_status = "True" THEN "passed" ELSE "failed"

\* the user edits the password input: password_entered, then a rerun
EnterPassword ==
    \E password \in Passwords :
        /\ result.value.form
        /\ password # session_state.password
        /\ Interaction("password_entered", [password |-> password],
                       password_entered(Set(session_state, "password", password)),
                       Sections[1],
                       CheckOf(password_entered(Set(session_state, "password", password))))

\* the user picks a section in the sidebar
SelectSection ==
    \E i \in DOMAIN Sections :
        /\ result.value.sidebar
        /\ Interaction("select_section", [section |-> Sections[i]],
                       session_state, Sections[i], "same")

\* the user presses the logout button: the run up to the button, then st.rerun()
Logout ==
    /\ result.value.sidebar
    /\ Interaction("logout", [button |-> "Cerrar Sesion"],
                   logout(restore_username(session_state)), Sections[1], "logout")

NextSession ==
    \/ EnterUsername
    \/ EnterPassword
    \/ SelectSection
    \/ Logout

SpecSession == InitSession /\ [][NextSession]_vars

\* the defect-prediction section was computed and rendered by the last run
RayleighRendered ==
    /\ result.value.section = Rayleigh
    /\ ~result.value.denied

\* C27: in every reachable session state the defect-prediction section is
\* rendered only if authentication_status is True and the user who last
\* passed the password check is 'admin' or 'pm'; after a failed password
\* check or a logout no dashboard section is rendered until a later password
\* check succeeds.
C27_RbacAndLogout ==
    /\ RayleighRendered =>
           /\ session_state.authentication_status = "True"
           /\ history.last_passed \in {"admin", "pm"}
    /\ history.last_check # "passed" =>
           /\ result.value.section = "none"
           /\ ~result.value.sidebar

\* the guest, logged in with the right password, picks the
\* defect-prediction section and is denied it
C27_Witness ==
    /\ op = "select_section"
    /\ call.section = Rayleigh
    /\ result.value.denied
    /\ history.last_passed = "invitado"
    /\ session_state.username = "invitado"

(***************************************************************************)
(* Claims about flat trends (SpecOLAP) and the hierarchy's shape (SpecOKR) *)
(***************************************************************************)

\* the bucket sums the trend was computed from are at least two, all equal
BucketsAllEqual ==
    /\ op = "calculate_metric_trend"
    /\ Len(result.value.values) >= 2
    /\ \A i \in 1..Len(result.value.values) :
           result.value.values[i] = result.value.values[1]

\* C28: when the last N >= 2 bucket sums considered by calculate_metric_trend
\* are all the same value, 0 included, the returned direction is 'flat' and
\* the returned change_pct is 0.
C28_EqualBucketsFlat ==
    BucketsAllEqual =>
        /\ result.value.direction = "flat"
        /\ result.value.change_pct = Num(0)

\* the position of the first objective of the list tagged with the perspective
FirstAppearance(perspective) ==
    CHOOSE i \in 1..Len(call.okrs) :
        /\ call.okrs[i].perspective = perspective
        /\ \A j \in 1..(i - 1) : call.okrs[j].perspective # perspective

\* the number of nodes at each level below the perspective nodes
RECURSIVE CountObjectiveNodes(_)
CountObjectiveNodes(perspective_nodes) ==
    IF perspective_nodes = <<>> THEN 0
    ELSE Len(Head(perspective_nodes).children)
         + CountObjectiveNodes(Tail(perspective_nodes))

RECURSIVE CountLeaves(_)
CountLeaves(objective_nodes) ==
    IF objective_nodes = <<>> THEN 0
    ELSE Len(Head(objective_nodes).children) + CountLeaves(Tail(objective_nodes))

RECURSIVE CountAllLeaves(_)
CountAllLeaves(perspective_nodes) ==
    IF perspective_nodes = <<>> THEN 0
    ELSE CountLeaves(Head(perspective_nodes).children)
         + CountAllLeaves(Tail(perspective_nodes))

\* the node is the objective's: its label, and one leaf per key result
NodeOfObjective(node, okr) ==
    /\ node.name = ObjectiveName(okr.objective)
    /\ node.children
           = [k \in 1..Len(okr.key_results) |-> kr_node(okr.key_results[k])]

\* C26: for every objective list, interleaved perspectives included,
\* create_okr_hierarchy makes one perspective node per distinct perspective in
\* the order of first appearance; every objective appears exactly once, under
\* its own perspective and in list order; every key result appears exactly
\* once as a leaf under its objective, so the leaves are as many as the key
\* results.
C26_HierarchyShape ==
    op = "create_okr_hierarchy" =>
        LET nodes == result.value.children
        IN  /\ {nodes[i].name : i \in 1..Len(nodes)}
                   = {call.okrs[i].perspective : i \in 1..Len(call.okrs)}
            /\ \A i, j \in 1..Len(nodes) :
                   i < j => FirstAppearance(nodes[i].name) < FirstAppearance(nodes[j].name)
            /\ \A i \in 1..Len(nodes) :
                   /\ Len(nodes[i].children) = Len(OkrsOf(nodes[i].name))
                   /\ \A j \in 1..Len(nodes[i].children) :
                          NodeOfObjective(nodes[i].children[j], OkrsOf(nodes[i].name)[j])
            /\ CountObjectiveNodes(nodes) = Len(call.okrs)
            /\ CountAllLeaves(nodes) = CountKeyResults(call.okrs)

\* a list whose first and third objectives share a perspective the second
\* does not have
C26_Witness ==
    /\ op = "create_okr_hierarchy"
    /\ Len(call.okrs) = 3
    /\ call.okrs[1].perspective = call.okrs[3].perspective
    /\ call.okrs[1].perspective # call.okrs[2].perspective
    /\ call.okrs[1] # call.okrs[3]
    /\ Len(result.value.children) = 2
    /\ Len(result.value.children[1].children) = 2
    /\ CountAllLeaves(result.value.children) = 4

====
